---- MODULE Spec2Model ----
(***************************************************************************)
(* The skiing game of docs/game.js as a state machine.                     *)
(*                                                                         *)
(* Numbers.  Every length, position and speed of the program is a float    *)
(* that is a multiple of 0.0001 in all the arithmetic the simulation does  *)
(* (0.001 speed steps, 0.1 * speed, 0.5 and 1.5 path steps), so the model  *)
(* keeps them as integers in units of 1/10000: Px(n) is n pixels, and      *)
(* distance is kept in 1/10000 m.  Times are integer milliseconds.  The    *)
(* one exception is cameraX, which eases toward the player by a tenth of   *)
(* the gap and is kept rounded to 1/10000; only the renderer reads it.     *)
(*                                                                         *)
(* scrollSpeed is compared with its ceiling, which it approaches in steps  *)
(* of 0.001: there the rounding of the double decides.  The model keeps    *)
(* the double exactly: scrollSpeed is its nominal value 3.5 + j * 0.001,   *)
(* and scrollSpeedUlps is the integer D for which the double is            *)
(* (7 * 2^50 + j * 2251799813685 + D) * 2^-51, so that it differs from the *)
(* nominal value by D - 0.248 * j units of 2^-51.                          *)
(*                                                                         *)
(* The page's buttons.  #start-btn sits on the start screen, #restart-btn  *)
(* on the game-over screen and #restart-btn-win on the victory screen; a   *)
(* screen carrying the class `hidden` is not displayed, so its button      *)
(* cannot be clicked.  The click actions are guarded by the hidden flags   *)
(* the program itself sets and clears.                                     *)
(*                                                                         *)
(* Not modelled: the SVG nodes and every attribute that only the renderer  *)
(* reads (player tilt and bob, particle position and velocity, the         *)
(* background patches, the trail polylines); the simulation never reads    *)
(* them back.  The player's opacity and scale and the three overlay        *)
(* screens' hidden class are kept, because the session flow and the jump   *)
(* are told through them.  The scale is kept in thousandths.               *)
(*                                                                         *)
(* Math.random() is a stream the program does not control: a run fixes a   *)
(* seed, and the draw made at a call site in a frame is read from a table  *)
(* of representative values.  Input events are those of a schedule of      *)
(* frame windows; Init picks the seed and the schedule.  A key press of a  *)
(* schedule may or may not happen; a key that is down is released within   *)
(* the window of its release.  The two sound files arrive when their       *)
(* fetch succeeds, which a schedule allows late in a session or never.     *)
(* A finger on the screen, outside the buttons, is in the left or the      *)
(* right steering zone; touches holds the zones that are touched.          *)
(*                                                                         *)
(* BurstSpec is the particle system on its own: one burst, then update()   *)
(* until it returns false.                                                 *)
(***************************************************************************)
EXTENDS Integers, Sequences, FiniteSets, TLC

VARIABLES
    game,           \* the Game object (and the objects it owns), plus game.log
    now,            \* performance.now(), in ms
    pendingFrames,  \* requestAnimationFrame callbacks registered for the next refresh
    runQueue,       \* callbacks of the current refresh that have not run yet
    seed,           \* the position of Math.random's stream
    schedule,       \* which input schedule the user follows
    audioAvailable, \* whether the browser can create an AudioContext
    touches,        \* the steering zones of the screen that a finger touches
    restarts,       \* how many times restart() has run
    replayFrames    \* display refreshes since the last restart()

vars == <<game, now, pendingFrames, runQueue, seed, schedule, audioAvailable, touches,
          restarts, replayFrames>>

----------------------------------------------------------------------------
(* Bounds of the exploration *)

\* restart() is followed at most this many times.
MaxRestarts == 1
\* A session begun by restart() is followed for at most this many refreshes.
MaxReplayFrames == 60
\* Seeds 0..MaxSeed of the random stream.
MaxSeed == 1
\* Milliseconds between two display refreshes.
FrameMs == 16

----------------------------------------------------------------------------
(* CONFIG *)

Px(n) == n * 10000

GAME_WIDTH == Px(1024)
GAME_HEIGHT == Px(640)
PLAYER_SPEED == Px(8)
INITIAL_SCROLL_SPEED == 35000
MAX_SPEED == Px(8)
JUMP_DURATION == 800
OBSTACLE_SPAWN_RATE == 60
WIN_DISTANCE == Px(2000)
\* distance += scrollSpeed * METER_SCALE, METER_SCALE = 0.1
MeterScale(v) == v \div 10

\* A field that holds undefined (pathTarget before its first assignment)
Undefined == [defined |-> FALSE, value |-> 0]
Defined(v) == [defined |-> TRUE, value |-> v]
\* The empty antagonist slot (this.poopingJJ = null)
Null == [type |-> "null"]
\* spawnPoopingJJ's forcedType = null
NoType == "null"

Abs(x) == IF x < 0 THEN -x ELSE x
\* x * 0.1 for a signed fixed-point x, rounded toward zero
Tenth(x) == IF x >= 0 THEN x \div 10 ELSE -((-x) \div 10)

----------------------------------------------------------------------------
(* Math.random *)

\* Representative draws in thousandths, all in [0, 1).
Tape == <<500, 120, 860, 300, 940, 60, 720>>

\* The draw made at call site `site` of the frame g is in.
Rand(g, site) == Tape[((seed + restarts + 3 * g.frameCount + site) % Len(Tape)) + 1]

----------------------------------------------------------------------------
(* Input schedules: the windows of frames in which the user may fire an    *)
(* event of the first session.  from/to are values of frameCount.          *)

Win(ev, key, from, to) == [ev |-> ev, key |-> key, from |-> from, to |-> to]

Schedules == <<
    \* 1: no input at all
    {},
    \* 2: jump presses before and after the first rock, or both steering buttons
    { Win("jump", "Space", 250, 252), Win("jump", "Space", 256, 256),
      Win("down", "KeyA", 240, 240), Win("down", "KeyD", 242, 242) },
    \* 3: park on the right, come back into the first carousel
    { Win("down", "ArrowRight", 0, 0), Win("up", "ArrowRight", 75, 75),
      Win("down", "ArrowLeft", 1560, 1560), Win("up", "ArrowLeft", 1785, 1785),
      Win("load", "gagi", 600, 600), Win("load", "spiegelei", 1700, 1700) },
    \* 4: park on the left, steer into the trees at the finish
    { Win("down", "ArrowLeft", 0, 0), Win("up", "ArrowLeft", 535, 535),
      Win("down", "ArrowRight", 3707, 3713) },
    \* 5: through the first carousel at its right edge, then with the
    \*    controls reversed into the second
    { Win("down", "ArrowRight", 0, 0), Win("up", "ArrowRight", 75, 75),
      Win("down", "ArrowLeft", 1560, 1560), Win("up", "ArrowLeft", 1781, 1781),
      Win("down", "KeyD", 2967, 2967), Win("up", "KeyD", 3100, 3100) },
    \* 6: a finger in the left zone, lifted in play, in the explosion or
    \* on the game-over screen
    { Win("touch", "left", 250, 250), Win("release", "left", 252, 252),
      Win("release", "left", 300, 300), Win("release", "left", 397, 397) }
>>

Allowed(ev, key) ==
    /\ runQueue = 0
    /\ restarts = 0
    /\ \E w \in Schedules[schedule] :
          w.ev = ev /\ w.key = key /\ w.from <= game.frameCount /\ game.frameCount <= w.to


\* A key that the schedule releases is not held beyond the window of its
\* release: no frame runs while that release is due.
Overdue ==
    /\ restarts = 0
    /\ \E w \in Schedules[schedule] :
          w.ev = "up" /\ w.to = game.frameCount /\ game.keys[w.key]

----------------------------------------------------------------------------
(* Instrumentation: what the last handler did.  Written by the handlers,   *)
(* never read by them.                                                     *)

NoLog(op) ==
    [ op |-> op,                 \* the handler that ran last
      from |-> "MENU",           \* the state it was called in
      ran |-> "none",            \* which branch of update() ran
      groundedAtCollision |-> FALSE,
      overlaps |-> 0,            \* obstacles overlapping the player at their collision step
      fatalOverlaps |-> 0,       \* those of them that are no carousel
      freshCarousels |-> 0,      \* those that are a carousel not yet triggered
      staleCarousels |-> 0,      \* those that are a carousel already triggered
      dispatched |-> 0,          \* triggerCarouselEffect / triggerExplosion calls
      explosions |-> 0,          \* triggerExplosion calls
      carouselEffects |-> 0,     \* carousel effects applied (past the triggered guard)
      wouldCollide |-> FALSE,    \* a victory tick: the skipped rest of the tick would explode
      landed |-> FALSE,          \* Player.update cleared isJumping
      jumpElapsed |-> 0,         \* now - jumpStartTime seen by Player.update while airborne
      updates |-> 0,             \* update() calls in the current display refresh
      dx |-> 0,                  \* the offset passed to Player.move (0: not called)
      effectPhase |-> 0,         \* phase of the carousel whose effect was applied
      barriers |-> 0,            \* jj-barriers pushed by the spawn step
      trees |-> 0,               \* wall trees pushed by the spawn step
      internals |-> 0,           \* rocks, flags and ditches pushed by the spawn step
      poops |-> 0,               \* poops pushed by the antagonist
      carousels |-> 0,           \* carousels pushed
      removed |-> 0,             \* obstacles spliced out by the obstacle loop
      particleUpdates |-> 0,     \* ParticleSystem.update calls since the burst
      returned |-> FALSE,        \* what the last of them returned
      gagi |-> 0,                \* gagi cues played
      spiegelei |-> 0,           \* spiegelei cues played
      held |-> 0,                \* ticks the current fork has stayed at its maximum
      exploding |-> 0,           \* ticks the session has spent in EXPLODING
      left |-> "none",           \* the variant of the antagonist removed by the tick
      crossings |-> 0,           \* times scrollSpeed went across its ceiling since the
                                 \* ceiling last changed
      sinceStop |-> 0 ]          \* at a restart, the time since the tick that stopped
                                 \* the audio

----------------------------------------------------------------------------
(* AudioManager.  ctx is whether the audio context exists; audioAvailable  *)
(* (part of the environment, see Init) is whether one can be created.      *)
(* bgmTimers counts the timeouts of playNote that have been set: each is   *)
(* a chain of background notes.  No run sets one (start() raises isPlaying *)
(* after startBGMSequence() has returned), so the callback of the timeout  *)
(* has no action.                                                          *)

NewAudio ==
    [ ctx |-> FALSE, isInitialized |-> FALSE, isPlaying |-> FALSE, skiNode |-> FALSE,
      gagiBuffer |-> FALSE, spiegeleiBuffer |-> FALSE, bgmTimers |-> 0 ]

\* playNote(): nothing unless isPlaying; else a note and the timeout of the next one
playNote(a) ==
    IF ~a.isPlaying THEN a ELSE [a EXCEPT !.bgmTimers = @ + 1]

\* startBGMSequence(): the first note, played at once
startBGMSequence(a) == playNote(a)

\* init(): the constructor of the context throws when audio is unsupported,
\* before isInitialized is set; the catch swallows it.
AudioInit(a, available) ==
    IF a.isInitialized THEN a
    ELSE IF available THEN [a EXCEPT !.ctx = TRUE, !.isInitialized = TRUE]
    ELSE a

\* start() throws (this.ctx is null) when it gets to createBufferSource without a context.
AudioStartThrows(a, available) ==
    LET a1 == IF a.isInitialized THEN a ELSE AudioInit(a, available)
    IN  ~a1.isPlaying /\ ~a1.ctx

\* A faulty variant: isPlaying is raised before the sequence is started.
AudioStartPlayingFirst(a, available) ==
    LET a1 == IF a.isInitialized THEN a ELSE AudioInit(a, available)
    IN  IF a1.isPlaying THEN a1
        ELSE startBGMSequence([a1 EXCEPT !.skiNode = TRUE, !.isPlaying = TRUE])

\* start(): the ski loop, startBGMSequence(), and only then isPlaying
AudioStart(a, available) ==
    LET a1 == IF a.isInitialized THEN a ELSE AudioInit(a, available)
    IN  IF a1.isPlaying THEN a1
        ELSE [startBGMSequence([a1 EXCEPT !.skiNode = TRUE]) EXCEPT !.isPlaying = TRUE]

AudioStop(a) == [a EXCEPT !.skiNode = FALSE, !.isPlaying = FALSE]

\* playGagi(): the cue, or nothing without its buffer
playGagi(g) ==
    IF ~g.audio.isInitialized \/ ~g.audio.gagiBuffer \/ ~g.audio.isPlaying THEN g
    ELSE [g EXCEPT !.log.gagi = @ + 1]

\* playSpiegelei(): the cue, or nothing without its buffer
playSpiegelei(g) ==
    IF ~g.audio.isInitialized \/ ~g.audio.spiegeleiBuffer \/ ~g.audio.isPlaying THEN g
    ELSE [g EXCEPT !.log.spiegelei = @ + 1]

----------------------------------------------------------------------------
(* Player *)

baseScale == 800

NewPlayer(x, y) ==
    [ x |-> x, y |-> y, isJumping |-> FALSE, jumpStartTime |-> 0, opacity |-> 1,
      scale |-> baseScale ]

createPlayer == NewPlayer(GAME_WIDTH \div 2, Px(150))

PlayerMove(p, dx) == [p EXCEPT !.x = @ + dx]

\* a jump that starts again when the key is pressed in the air
PlayerJumpAgain(p, t) == [p EXCEPT !.isJumping = TRUE, !.jumpStartTime = t]

PlayerJump(p, t) ==
    IF ~p.isJumping THEN [p EXCEPT !.isJumping = TRUE, !.jumpStartTime = t] ELSE p

\* progress = (now - jumpStartTime) / JUMP_DURATION; progress >= 1 ends the jump
JumpOver(p, t) == (t - p.jumpStartTime) >= JUMP_DURATION

\* baseScale + Math.sin(progress * Math.PI) * 0.4 after `elapsed` ms of the
\* jump, in thousandths; the sine is taken from Bhaskara's formula
\* 16 p (1 - p) / (5 - 4 p (1 - p)), which is within 0.002 of it
JumpScale(elapsed) ==
    baseScale + (6400 * (elapsed * (JUMP_DURATION - elapsed)))
                    \div (5 * JUMP_DURATION * JUMP_DURATION
                            - 4 * (elapsed * (JUMP_DURATION - elapsed)))

PlayerUpdate(p, t) ==
    IF p.isJumping
    THEN IF JumpOver(p, t) THEN [p EXCEPT !.isJumping = FALSE, !.scale = baseScale]
         ELSE [p EXCEPT !.scale = JumpScale(t - p.jumpStartTime)]
    ELSE p

----------------------------------------------------------------------------
(* Obstacle *)

ObstacleWidth(type) ==
    CASE type = "jj-barrier" -> GAME_WIDTH
      [] type = "carousel" -> GAME_WIDTH
      [] type = "tree" -> Px(60)
      [] type = "flag" -> Px(20)
      [] type = "kid" -> Px(45)
      [] type = "ditch" -> Px(50)
      [] OTHER -> Px(40)

ObstacleHeight(type) ==
    CASE type = "jj-barrier" -> Px(60)
      [] type = "carousel" -> Px(300)
      [] type = "tree" -> Px(75)
      [] type = "flag" -> Px(30)
      [] type = "kid" -> Px(55)
      [] type = "ditch" -> Px(20)
      [] OTHER -> Px(30)

\* scaleX is in hundredths; fired counts the carousel effects this obstacle applied.
NewObstacle(x, y, type) ==
    [ x |-> x, y |-> y, type |-> type,
      width |-> ObstacleWidth(type), height |-> ObstacleHeight(type),
      phase |-> 0, triggered |-> FALSE, fired |-> 0,
      barrierState |-> IF type = "jj-barrier" THEN "wait" ELSE "none",
      animTimer |-> 0, kidOffsetX |-> 0, rotation |-> 0,
      scaleX |-> IF type = "ditch" THEN 10 ELSE 0 ]

\* a barrier whose kid jumps as soon as it is spawned
updateAnimationAtOnce(o) ==
    IF o.type = "jj-barrier" /\ o.barrierState = "wait"
    THEN [o EXCEPT !.barrierState = "jump", !.animTimer = 0]
    ELSE o

updateAnimation(o) ==
    IF o.type = "carousel" THEN [o EXCEPT !.rotation = @ + 2]
    ELSE IF o.type = "ditch" /\ o.scaleX < 150 THEN [o EXCEPT !.scaleX = @ + 5]
    ELSE IF o.type = "jj-barrier" THEN
        IF o.barrierState = "wait" /\ o.y < GAME_HEIGHT - Px(100)
        THEN [o EXCEPT !.barrierState = "jump", !.animTimer = 0]
        ELSE IF o.barrierState = "jump" THEN
            IF o.animTimer + 1 <= 40 THEN [o EXCEPT !.animTimer = @ + 1]
            ELSE [o EXCEPT !.barrierState = "crack", !.animTimer = 0]
        ELSE IF o.barrierState = "crack" THEN
            IF o.animTimer + 1 <= 10 THEN [o EXCEPT !.animTimer = @ + 1]
            ELSE [o EXCEPT !.animTimer = @ + 1, !.barrierState = "done"]
        ELSE o
    ELSE o

checkCollision(player, obstacle) ==
    LET px == player.x - Px(15)
        py == player.y - Px(10)
        pw == Px(30)
        ph == Px(20)
        ox == obstacle.x - obstacle.width \div 2
        oy == obstacle.y - obstacle.height
        ow == obstacle.width
        oh == obstacle.height
    IN  px < ox + ow /\ px + pw > ox /\ py < oy + oh /\ py + ph > oy

----------------------------------------------------------------------------
(* ParticleSystem.  A particle is its life and decay (1/10000) and colour. *)

particleCount == 60

\* the particles of one burst; draws[i] is the Math.random() (in thousandths)
\* of particle i's decay = 0.01 + Math.random() * 0.01
Burst(color, draws) ==
    [ i \in 1..particleCount |->
        [ life |-> 15000, decay |-> 100 + draws[i] \div 10, color |-> color ] ]

\* the decay is the fourth draw of each particle
spawnExplosion(g, color) ==
    [g EXCEPT !.particles =
        @ \o Burst(color, [ i \in 1..particleCount |-> Rand(g, Len(g.particles) + 4 * i) ])]

\* a particle that is kept while its life is not negative
ParticleNotNegative(p) == p.life >= 0

ParticleAlive(p) == p.life > 0

\* ParticleSystem.update(): the particles left; it returns whether any is.
ParticlesUpdate(ps) ==
    SelectSeq([ i \in 1..Len(ps) |-> [ps[i] EXCEPT !.life = @ - ps[i].decay] ], ParticleAlive)

\* the value update() returns
ParticlesRemain(ps) == Len(ps) > 0

ExplosionColor(type) ==
    CASE type = "poop" -> "#795548"
      [] type = "tree" -> "#2E7D32"
      [] type = "rock" -> "#9e9e9e"
      [] type \in {"kid", "jj-barrier"} -> "#fdd835"
      [] OTHER -> "#5d4037"

----------------------------------------------------------------------------
(* Collision outcomes *)

\* A faulty variant: the effect without its triggered guard.
triggerCarouselEffectUnguarded(g, i) ==
    [playSpiegelei(g) EXCEPT !.obstacles[i].triggered = TRUE,
              !.obstacles[i].fired = @ + 1,
              !.log.carouselEffects = @ + 1,
              !.log.effectPhase = g.obstacles[i].phase,
              !.carouselActive = (g.obstacles[i].phase = 1)]

\* A faulty variant: every carousel reverses the controls.
triggerCarouselEffectReversing(g, i) ==
    IF g.obstacles[i].triggered THEN g
    ELSE [playSpiegelei(g) EXCEPT !.obstacles[i].triggered = TRUE,
                   !.obstacles[i].fired = @ + 1,
                   !.log.carouselEffects = @ + 1,
                   !.log.effectPhase = g.obstacles[i].phase,
                   !.carouselActive = TRUE]

triggerCarouselEffect(g, i) ==
    LET obs == g.obstacles[i]
    IN  IF obs.triggered THEN g
        ELSE [playSpiegelei(g) EXCEPT !.obstacles[i].triggered = TRUE,
                       !.obstacles[i].fired = @ + 1,
                       !.log.carouselEffects = @ + 1,
                       !.log.effectPhase = obs.phase,
                       !.log.crossings = IF g.carouselActive = (obs.phase = 1) THEN @ ELSE 0,
                       !.carouselActive = (obs.phase = 1)]

\* A faulty variant: the explosion ends the session at once.
triggerExplosionToGameOver(g, obstacle) ==
    spawnExplosion(spawnExplosion([g EXCEPT !.state = "GAMEOVER",
                                            !.audio = AudioStop(@),
                                            !.player.opacity = 0,
                                            !.log.explosions = @ + 1],
                                  ExplosionColor(obstacle.type)), "#ff3d00")

\* A faulty variant: the explosion leaves the player visible.
triggerExplosionVisible(g, obstacle) ==
    spawnExplosion(spawnExplosion([g EXCEPT !.state = "EXPLODING",
                                            !.audio = AudioStop(@),
                                            !.log.explosions = @ + 1],
                                  ExplosionColor(obstacle.type)), "#ff3d00")

triggerExplosion(g, obstacle) ==
    LET g1 == [g EXCEPT !.state = "EXPLODING",
                        !.audio = AudioStop(@),
                        !.player.opacity = 0,
                        !.log.explosions = @ + 1]
    IN  spawnExplosion(spawnExplosion(g1, ExplosionColor(obstacle.type)), "#ff3d00")

gameOver(g) ==
    [g EXCEPT !.state = "GAMEOVER", !.audio = AudioStop(@), !.gameOverScreenHidden = FALSE]

victory(g) ==
    [g EXCEPT !.state = "VICTORY", !.audio = AudioStop(@), !.victoryScreenHidden = FALSE]

----------------------------------------------------------------------------
(* Path model *)

\* this.pathTarget is never given a value by the constructor or by restart():
\* it is undefined until updatePath assigns it, and every comparison with
\* undefined (NaN) is false.
NearTarget(g) == g.pathTarget.defined /\ Abs(g.pathCenter - g.pathTarget.value) < Px(5)

BelowTarget(g) == g.pathTarget.defined /\ g.pathCenter < g.pathTarget.value

\* re-roll of the targets when the centre has arrived
RollTargets(g) ==
    IF NearTarget(g)
    THEN [g EXCEPT
            !.pathTarget = Defined(Px(150) + Rand(g, 1) * ((GAME_WIDTH - Px(300)) \div 1000)),
            !.targetPathWidth = IF ~g.isSplitting
                                THEN Px(300) + Rand(g, 2) * (Px(300) \div 1000)
                                ELSE @]
    ELSE g

\* speed = 0.5 + scrollSpeed * 0.1; the centre steps toward the target
MoveCenter(g) ==
    [g EXCEPT !.pathCenter = IF BelowTarget(g) THEN @ + (5000 + MeterScale(g.scrollSpeed))
                             ELSE @ - (5000 + MeterScale(g.scrollSpeed))]

\* a width that is set to its target at once
StepWidthAtOnce(g) ==
    [g EXCEPT !.pathWidth = g.targetPathWidth, !.splitTimer = @ + 1]

\* the width steps toward its target, the fork timer counts
StepWidth(g) ==
    LET w1 == IF g.pathWidth < g.targetPathWidth THEN g.pathWidth + 5000 ELSE g.pathWidth
    IN  [g EXCEPT !.pathWidth = IF w1 > g.targetPathWidth THEN w1 - 5000 ELSE w1,
                  !.splitTimer = @ + 1]

\* a new fork: splitTimer > 500 + Math.random() * 500
StartSplit(g) ==
    IF ~g.isSplitting /\ g.splitDistance = 0
       /\ g.splitTimer * 1000 > 500000 + Rand(g, 3) * 500
    THEN [g EXCEPT !.isSplitting = TRUE, !.splitTimer = 0]
    ELSE g

\* a fork that separates without waiting for the width
WidenForSplitAtOnce(g) ==
    IF g.isSplitting /\ g.splitDistance = 0
    THEN [g EXCEPT !.targetPathWidth = Px(750), !.startSeparating = TRUE]
    ELSE g

WidenForSplit(g) ==
    IF g.isSplitting /\ g.splitDistance = 0
    THEN [g EXCEPT !.targetPathWidth = Px(750),
                   !.startSeparating = IF g.pathWidth >= Px(700) THEN TRUE ELSE @]
    ELSE g

\* a separation that never tests the maximum
SeparateUnbounded(g) ==
    IF g.isSplitting /\ g.startSeparating
    THEN [g EXCEPT !.splitDistance = @ + 15000, !.log.held = 0]
    ELSE g

Separate(g) ==
    IF g.isSplitting /\ g.startSeparating
    THEN IF g.splitDistance < g.maxSplitDistance
         THEN [g EXCEPT !.splitDistance = @ + 15000, !.log.held = 0]
         ELSE IF g.splitTimer > 400
              THEN [g EXCEPT !.isSplitting = FALSE, !.startSeparating = FALSE,
                             !.splitTimer = 0]
              ELSE [g EXCEPT !.log.held = @ + 1]
    ELSE g

\* a contraction that only clamps and never subtracts
MergeStalled(g) ==
    IF ~g.isSplitting /\ g.splitDistance > 0 /\ g.splitDistance <= 0
    THEN [g EXCEPT !.splitDistance = 0, !.targetPathWidth = Px(450)]
    ELSE g

Merge(g) ==
    IF ~g.isSplitting /\ g.splitDistance > 0
    THEN IF g.splitDistance - 15000 <= 0
         THEN [g EXCEPT !.splitDistance = 0, !.targetPathWidth = Px(450)]
         ELSE [g EXCEPT !.splitDistance = @ - 15000]
    ELSE g

updatePath(g) ==
    Merge(Separate(WidenForSplit(StartSplit(StepWidth(MoveCenter(RollTargets(g)))))))

----------------------------------------------------------------------------
(* Obstacle registry: spawning *)

Push(g, obstacle) == [g EXCEPT !.obstacles = Append(@, obstacle)]

\* instrumentation: one more obstacle of this kind pushed in the tick
Spawned(g, kind) == [g EXCEPT !.log[kind] = @ + 1]

Clamp(lo, hi, x) == IF x < lo THEN lo ELSE IF x > hi THEN hi ELSE x

spawnJJBarrier(g) ==
    IF g.distance < Px(100) THEN g
    ELSE LET isLeft == Rand(g, 4) > 500
             offset == (g.pathWidth \div 2) - Px(30)
             x0 == IF isLeft THEN g.pathCenter - offset ELSE g.pathCenter + offset
             x == Clamp(Px(100), GAME_WIDTH - Px(100), x0)
             obstacle == [NewObstacle(g.pathCenter, GAME_HEIGHT + Px(150), "jj-barrier")
                            EXCEPT !.kidOffsetX = x - g.pathCenter]
         IN  Push(Spawned(g, "barriers"), obstacle)

\* jitter = (Math.random() - 0.5) * 20
spawnTreeAt(g, x, y, site) ==
    LET jitter == (Rand(g, site) - 500) * 200
    IN  Push(Spawned(g, "trees"), NewObstacle(x + jitter, y, "tree"))

NoTreeBand(g) == g.distance > Px(700) /\ g.distance < Px(1300)

\* the third tree, between the two branches of a fork
spawnMidTree(g, y, midLeft, midRight) ==
    IF g.splitDistance > Px(80) /\ midRight > midLeft
    THEN spawnTreeAt(g, (midLeft + midRight) \div 2, y, 7)
    ELSE g

spawnWallTrees(g) ==
    IF NoTreeBand(g) THEN g
    ELSE LET y == GAME_HEIGHT + Px(50)
             leftPathCenter == g.pathCenter - (g.splitDistance \div 2)
             rightPathCenter == g.pathCenter + (g.splitDistance \div 2)
             currentPathWidth == IF g.isSplitting \/ g.splitDistance > 0
                                 THEN g.pathWidth \div 2 ELSE g.pathWidth
             leftEdge == leftPathCenter - currentPathWidth \div 2
             rightEdge == rightPathCenter + currentPathWidth \div 2
         IN  spawnMidTree(spawnTreeAt(spawnTreeAt(g, leftEdge - Px(20), y, 5),
                                      rightEdge + Px(20), y, 6),
                          y,
                          leftPathCenter + currentPathWidth \div 2,
                          rightPathCenter - currentPathWidth \div 2)

\* a draw of the type that ignores the distance
InternalTypeAnywhere(g, rand) ==
    IF rand > 920 THEN "ditch" ELSE IF rand > 700 THEN "flag" ELSE "rock"

InternalType(g, rand) ==
    IF g.distance > Px(800) /\ rand > 920 THEN "ditch"
    ELSE IF g.distance > Px(400) /\ rand > 700 THEN "flag"
    ELSE "rock"

\* xOffset = (Math.random() - 0.5) * safeWidth
spawnInternalObstacle(g) ==
    LET type == InternalType(g, Rand(g, 8))
        forked == g.splitDistance > Px(50)
        targetCenter == IF forked
                        THEN IF Rand(g, 9) > 500
                             THEN g.pathCenter - g.splitDistance \div 2
                             ELSE g.pathCenter + g.splitDistance \div 2
                        ELSE g.pathCenter
        targetWidth == IF forked THEN g.pathWidth \div 2 ELSE g.pathWidth
        safeWidth == targetWidth - Px(60)
        xOffset == (safeWidth \div 500) * ((Rand(g, 10) - 500) \div 2)
    IN  Push(Spawned(g, "internals"),
             NewObstacle(targetCenter + xOffset, GAME_HEIGHT + Px(50), type))

SpawnRate(g) ==
    IF g.distance > Px(1000) THEN 30
    ELSE IF g.distance > Px(500) THEN 45
    ELSE OBSTACLE_SPAWN_RATE

\* wall trees every 5 frames
SpawnWallsOften(g) == IF g.frameCount % 5 = 0 THEN spawnWallTrees(g) ELSE g

SpawnWalls(g) == IF g.frameCount % 10 = 0 THEN spawnWallTrees(g) ELSE g

SpawnInternal(g) == IF g.frameCount % SpawnRate(g) = 0 THEN spawnInternalObstacle(g) ELSE g

\* a milestone that is served without being recorded
SpawnOnPathUnrecorded(g) ==
    IF g.distance \div Px(100) > g.lastHundredMeters /\ g.distance \div Px(100) > 0
    THEN spawnJJBarrier(g)
    ELSE SpawnInternal(SpawnWalls(g))

\* spawnObstacle() after its updatePath() call
SpawnOnPath(g) ==
    IF g.distance \div Px(100) > g.lastHundredMeters /\ g.distance \div Px(100) > 0
    THEN spawnJJBarrier([g EXCEPT !.lastHundredMeters = g.distance \div Px(100)])
    ELSE SpawnInternal(SpawnWalls(g))

spawnObstacle(g) == SpawnOnPath(updatePath(g))

spawnCarousel(g, phase) ==
    Push(Spawned(g, "carousels"), [NewObstacle(g.pathCenter, GAME_HEIGHT + Px(200), "carousel") EXCEPT !.phase = phase])

spawnPoop(g, x, y) == Push(Spawned(g, "poops"), NewObstacle(x, y, "poop"))

----------------------------------------------------------------------------
(* The pooping antagonist *)

\* A faulty variant: no antagonist without its sound.
spawnPoopingJJWithSound(g, forcedType) ==
    IF g.poopingJJ # Null \/ ~g.audio.gagiBuffer THEN g
    ELSE LET type == IF forcedType # NoType THEN forcedType
                     ELSE IF Rand(g, 11) > 500 THEN "sled" ELSE "squat"
             startFromLeft == Rand(g, 12) > 500
             leftBound == g.pathCenter - g.pathWidth \div 2 + Px(50)
             rightBound == g.pathCenter + g.pathWidth \div 2 - Px(50)
         IN  [playGagi(g) EXCEPT !.poopingJJ =
                [ type |-> type,
                  x |-> IF startFromLeft THEN leftBound ELSE rightBound,
                  y |-> -Px(100),
                  targetY |-> Px(200),
                  direction |-> IF startFromLeft THEN 1 ELSE -1,
                  poopTimer |-> 0,
                  state |-> "entering",
                  angle |-> 0,
                  lifeTime |-> 0,
                  ropeElement |-> FALSE ]]

\* forcedType is NoType for a random variant
spawnPoopingJJ(g, forcedType) ==
    IF g.poopingJJ # Null THEN g
    ELSE LET type == IF forcedType # NoType THEN forcedType
                     ELSE IF Rand(g, 11) > 500 THEN "sled" ELSE "squat"
             startFromLeft == Rand(g, 12) > 500
             leftBound == g.pathCenter - g.pathWidth \div 2 + Px(50)
             rightBound == g.pathCenter + g.pathWidth \div 2 - Px(50)
         IN  [playGagi(g) EXCEPT !.poopingJJ =
                [ type |-> type,
                  x |-> IF startFromLeft THEN leftBound ELSE rightBound,
                  y |-> -Px(100),
                  targetY |-> Px(200),
                  direction |-> IF startFromLeft THEN 1 ELSE -1,
                  poopTimer |-> 0,
                  state |-> "entering",
                  angle |-> 0,
                  lifeTime |-> 0,
                  ropeElement |-> FALSE ]]

\* the sled variant, entering: jj.y += 4, jj.x += direction
SledEnter(jj) ==
    LET j1 == [jj EXCEPT !.y = @ + Px(4), !.x = @ + jj.direction * Px(1)]
    IN  IF j1.y >= j1.targetY THEN [j1 EXCEPT !.state = "skiing"] ELSE j1

\* skiing: the step, the turn at the bounds, the poop timer
SledGlide(jj) == [jj EXCEPT !.x = @ + 25000 * jj.direction, !.y = @ + 5000]

SledTurn(jj, leftBound, rightBound) ==
    [jj EXCEPT !.direction = IF jj.x < leftBound THEN 1
                             ELSE IF jj.x > rightBound THEN -1 ELSE @,
               !.poopTimer = @ + 1]

SledPoops(jj) == jj.poopTimer > 60

SledAfterPoop(jj) ==
    [jj EXCEPT !.poopTimer = IF SledPoops(jj) THEN 0 ELSE @,
               !.angle = jj.direction * (-10),
               !.lifeTime = @ + 1]

\* a sled that is removed as soon as its 600 frames are over
SledLeaveAtOnce(jj) ==
    IF jj.lifeTime > 600 THEN Null ELSE jj

\* after 600 frames it zooms away down; null once below the screen
SledLeave(jj) ==
    IF jj.lifeTime > 600
    THEN IF jj.y + Px(5) > GAME_HEIGHT + Px(100) THEN Null ELSE [jj EXCEPT !.y = @ + Px(5)]
    ELSE jj

SledSki(g, jj) ==
    [(IF SledPoops(jj) THEN spawnPoop(g, jj.x, jj.y + Px(20)) ELSE g)
        EXCEPT !.poopingJJ = SledLeave(SledAfterPoop(jj))]

updateSleddingJJ(g) ==
    IF g.poopingJJ.state = "entering"
    THEN [g EXCEPT !.poopingJJ = SledEnter(@)]
    ELSE IF g.poopingJJ.state = "skiing"
    THEN SledSki(g, SledTurn(SledGlide(g.poopingJJ),
                             g.pathCenter - g.pathWidth \div 2 + Px(50),
                             g.pathCenter + g.pathWidth \div 2 - Px(50)))
    ELSE g

\* the squat variant, entering: the rope, the jump ahead, then crawling
SquatEnter(jj) ==
    IF jj.y = -Px(100)
    THEN [jj EXCEPT !.ropeElement = TRUE, !.y = GAME_HEIGHT + Px(100),
                    !.targetY = GAME_HEIGHT + Px(100), !.state = "crawling"]
    ELSE [jj EXCEPT !.ropeElement = TRUE, !.state = "crawling"]

SquatStep(jj) == [jj EXCEPT !.x = @ + Px(3) * jj.direction, !.poopTimer = @ + 1]

SquatPoops(jj) == jj.poopTimer > 20

SquatTurn(jj, leftBound, rightBound, scrollSpeed) ==
    [jj EXCEPT !.poopTimer = IF SquatPoops(jj) THEN 0 ELSE @,
               !.direction = IF jj.direction = 1 /\ jj.x > rightBound THEN -1
                             ELSE IF jj.direction = -1 /\ jj.x < leftBound THEN 1
                             ELSE @,
               !.y = @ - scrollSpeed]

SquatLeave(jj) == IF jj.y < -Px(150) THEN Null ELSE jj

SquatCrawl(g, jj) ==
    [(IF SquatPoops(jj) THEN spawnPoop(g, jj.x, jj.y + Px(20)) ELSE g)
        EXCEPT !.poopingJJ = SquatLeave(SquatTurn(jj,
                                 g.pathCenter - g.pathWidth \div 2 + Px(20),
                                 g.pathCenter + g.pathWidth \div 2 - Px(20),
                                 g.scrollSpeed))]

updateSquattingJJ(g) ==
    IF g.poopingJJ.state = "entering"
    THEN [g EXCEPT !.poopingJJ = SquatEnter(@)]
    ELSE IF g.poopingJJ.state = "crawling"
    THEN SquatCrawl(g, SquatStep(g.poopingJJ))
    ELSE g

updatePoopingJJ(g) ==
    IF g.poopingJJ = Null THEN g
    ELSE IF g.poopingJJ.type = "sled" THEN updateSleddingJJ(g)
    ELSE updateSquattingJJ(g)

----------------------------------------------------------------------------
(* Trail *)

TrailKept(t) == ~(t.y < -Px(100) \/ t.age > 200)

updateTrails(g) ==
    [g EXCEPT !.trails =
        SelectSeq([ i \in 1..Len(@) |-> [@[i] EXCEPT !.y = @ - g.scrollSpeed, !.age = @ + 1] ],
                  TrailKept)]

----------------------------------------------------------------------------
(* Game.update *)

\* The obstacle loop, for i = obstacles.length - 1 down to 0 (indices are
\* 1-based here).  What the loop does to one obstacle reads nothing an
\* earlier iteration wrote except through the collision outcomes, so it is
\* told in three passes: every obstacle scrolls up; the outcomes of those
\* that overlap the player are dispatched, highest index first; the ones
\* above the world are removed and the others animated.
Scrolled(g) == [g EXCEPT !.obstacles = [ i \in 1..Len(@) |-> [@[i] EXCEPT !.y = @ - g.scrollSpeed] ]]

\* the indices of the obstacles overlapping the player, highest first
Overlapping(g) ==
    LET n == Len(g.obstacles)
    IN  SelectSeq([ j \in 1..n |-> n + 1 - j ],
                  LAMBDA i : checkCollision(g.player, g.obstacles[i]))

Outcome(g, i) ==
    IF g.obstacles[i].type = "carousel"
    THEN triggerCarouselEffect(g, i)
    ELSE triggerExplosion(g, g.obstacles[i])

RECURSIVE Dispatch(_, _, _)
Dispatch(g, hits, k) ==
    IF k > Len(hits) THEN g
    ELSE Dispatch(Outcome([g EXCEPT !.log.dispatched = @ + 1], hits[k]), hits, k + 1)

OnWorld(o) == ~(o.y < -Px(100))

\* a sweep that drops what it has drawn above the top edge of the screen
SweepAtEdge(g) ==
    [g EXCEPT !.obstacles =
        SelectSeq([ i \in 1..Len(@) |-> IF OnWorld(@[i]) THEN updateAnimation(@[i]) ELSE @[i] ],
                  LAMBDA o : ~(o.y < 0)),
              !.log.removed = Len(g.obstacles)
                                - Len(SelectSeq(g.obstacles, LAMBDA o : ~(o.y < 0)))]

Sweep(g) ==
    [g EXCEPT !.obstacles =
        SelectSeq([ i \in 1..Len(@) |-> IF OnWorld(@[i]) THEN updateAnimation(@[i]) ELSE @[i] ],
                  OnWorld),
              !.log.removed = Len(g.obstacles) - Len(SelectSeq(g.obstacles, OnWorld))]

\* what overlaps, by kind
Seen(g, hits) ==
    [g EXCEPT !.log.overlaps = Len(hits),
              !.log.fatalOverlaps =
                  Len(SelectSeq(hits, LAMBDA i : g.obstacles[i].type # "carousel")),
              !.log.freshCarousels =
                  Len(SelectSeq(hits, LAMBDA i : g.obstacles[i].type = "carousel"
                                                  /\ ~g.obstacles[i].triggered)),
              !.log.staleCarousels =
                  Len(SelectSeq(hits, LAMBDA i : g.obstacles[i].type = "carousel"
                                                  /\ g.obstacles[i].triggered))]

\* A faulty variant: the outcomes are dispatched in the air as well.
CollideInTheAir(g, hits) == Dispatch(Seen(g, hits), hits, 1)

\* the outcomes are dispatched only while the player is on the ground
Collide(g, hits) ==
    IF ~g.player.isJumping THEN Dispatch(Seen(g, hits), hits, 1) ELSE Seen(g, hits)

CollideScrolled(g) == Collide(g, Overlapping(g))

ObstacleLoop(g) == Sweep(CollideScrolled(Scrolled(g)))

\* a direction that ignores the reversal
MoveDirStraight(g) ==
    (IF g.keys.ArrowLeft \/ g.keys.KeyA THEN -1 ELSE 0)
        + (IF g.keys.ArrowRight \/ g.keys.KeyD THEN 1 ELSE 0)

MoveDir(g) ==
    LET left == IF g.keys.ArrowLeft \/ g.keys.KeyA THEN -1 ELSE 0
        right == IF g.keys.ArrowRight \/ g.keys.KeyD THEN 1 ELSE 0
        moveDir == left + right
    IN  IF g.carouselActive THEN -moveDir ELSE moveDir

\* update() from the input step to its end: what runs when the win check fails
Steer(g) ==
    IF MoveDir(g) # 0
    THEN [g EXCEPT !.player = PlayerMove(@, MoveDir(g) * PLAYER_SPEED),
                   !.log.dx = MoveDir(g) * PLAYER_SPEED]
    ELSE g

UpdatePlayer(g, t) ==
    [g EXCEPT !.player = PlayerUpdate(@, t),
              !.log.landed = g.player.isJumping /\ JumpOver(g.player, t),
              !.log.jumpElapsed = IF g.player.isJumping THEN t - g.player.jumpStartTime ELSE 0]

\* a trail that is drawn under the jump as well
PushTrailInTheAir(g) ==
    [g EXCEPT !.trails = Append(@, [x |-> g.player.x, y |-> g.player.y + Px(15), age |-> 0])]

PushTrail(g) ==
    IF ~g.player.isJumping
    THEN [g EXCEPT !.trails = Append(@, [x |-> g.player.x, y |-> g.player.y + Px(15), age |-> 0])]
    ELSE g

BeforeCollisions(g) ==
    [g EXCEPT !.log.ran = "playing", !.log.groundedAtCollision = ~g.player.isJumping]

Simulate(g, t) ==
    ObstacleLoop(BeforeCollisions(spawnObstacle(updateTrails(PushTrail(UpdatePlayer(Steer(g), t))))))

WinReached(g) == g.distance >= WIN_DISTANCE

Advance(g) == [g EXCEPT !.distance = @ + MeterScale(g.scrollSpeed)]

\* j: the nominal scrollSpeed is 3.5 + j * 0.001
SpeedSteps(g) == (g.scrollSpeed - INITIAL_SCROLL_SPEED) \div 10

\* the double scrollSpeed against a ceiling that is a whole number: where the
\* nominal values are equal, the sign of D - 0.248 * j decides
SpeedBelow(g, ceiling) ==
    IF g.scrollSpeed # ceiling THEN g.scrollSpeed < ceiling
    ELSE 1000 * g.scrollSpeedUlps < 248 * SpeedSteps(g)

SpeedAbove(g, ceiling) ==
    IF g.scrollSpeed # ceiling THEN g.scrollSpeed > ceiling
    ELSE 1000 * g.scrollSpeedUlps > 248 * SpeedSteps(g)

\* scrollSpeed += 0.001 in round-to-nearest-even.  Below 4 the doubles are
\* 2^-51 apart and the sum is rounded to j + 1 and the same D; from 4 on they
\* are 2^-50 apart and D grows by one; a sum that gets to 4 from below is
\* rounded to the even neighbour.
SpeedUp(g) ==
    LET coarse == ~SpeedBelow(g, Px(4))
        sumReaches4 == \/ g.scrollSpeed + 10 > Px(4)
                       \/ /\ g.scrollSpeed + 10 = Px(4)
                          /\ 1000 * g.scrollSpeedUlps >= 248 * SpeedSteps(g)
        odd == (SpeedSteps(g) + 1 + g.scrollSpeedUlps) % 2 = 1
    IN  [g EXCEPT !.scrollSpeed = @ + 10,
                  !.scrollSpeedUlps = IF coarse \/ (sumReaches4 /\ odd) THEN @ + 1 ELSE @]

\* scrollSpeed -= 0.05: 50 nominal steps down, and 12 units of 2^-51 more
SlowDown(g) == [g EXCEPT !.scrollSpeed = @ - 500, !.scrollSpeedUlps = @ - 12]

\* instrumentation: the speed was on one side of the ceiling and is on the other
Crossed(g, h, ceiling) ==
    IF \/ SpeedBelow(g, ceiling) /\ SpeedAbove(h, ceiling)
       \/ SpeedAbove(g, ceiling) /\ SpeedBelow(h, ceiling)
    THEN [h EXCEPT !.log.crossings = @ + 1]
    ELSE h

\* the speed climbs by 0.001 below its ceiling and falls by 0.05 above it
SpeedControl(g, targetMaxSpeed) ==
    IF SpeedBelow(g, targetMaxSpeed) THEN SpeedUp(g)
    ELSE IF SpeedAbove(g, targetMaxSpeed) THEN SlowDown(g)
    ELSE g

Accelerate(g) ==
    Crossed(g, SpeedControl(g, IF g.carouselActive THEN Px(4) ELSE MAX_SPEED),
            IF g.carouselActive THEN Px(4) ELSE MAX_SPEED)

\* cameraX += (targetCamX - cameraX) * 0.1
MoveCamera(g) == [g EXCEPT !.cameraX = @ + Tenth((g.player.x - GAME_WIDTH \div 2) - @)]

\* a first antagonist whose variant is drawn like every later one
SpawnPooperAnyFirst(g) ==
    IF g.poopingJJ = Null
    THEN IF ~g.hasSpawnedFirstPooper /\ g.distance > Px(250)
         THEN [spawnPoopingJJ(g, NoType) EXCEPT
                  !.hasSpawnedFirstPooper = TRUE, !.lastPoopJJSpawn = g.distance]
         ELSE IF g.hasSpawnedFirstPooper /\ g.distance - g.lastPoopJJSpawn > Px(400)
              THEN [spawnPoopingJJ(g, NoType) EXCEPT !.lastPoopJJSpawn = g.distance]
              ELSE g
    ELSE g

\* a respawn as soon as the slot is empty
SpawnPooperAtOnce(g) ==
    IF g.poopingJJ = Null
    THEN IF ~g.hasSpawnedFirstPooper /\ g.distance > Px(250)
         THEN [spawnPoopingJJ(g, "squat") EXCEPT
                  !.hasSpawnedFirstPooper = TRUE, !.lastPoopJJSpawn = g.distance]
         ELSE IF g.hasSpawnedFirstPooper
              THEN [spawnPoopingJJ(g, NoType) EXCEPT !.lastPoopJJSpawn = g.distance]
              ELSE g
    ELSE g

SpawnPooper(g) ==
    IF g.poopingJJ = Null
    THEN IF ~g.hasSpawnedFirstPooper /\ g.distance > Px(250)
         THEN [spawnPoopingJJ(g, "squat") EXCEPT
                  !.hasSpawnedFirstPooper = TRUE, !.lastPoopJJSpawn = g.distance]
         ELSE IF g.hasSpawnedFirstPooper /\ g.distance - g.lastPoopJJSpawn > Px(400)
              THEN [spawnPoopingJJ(g, NoType) EXCEPT !.lastPoopJJSpawn = g.distance]
              ELSE g
    ELSE g

\* instrumentation: the antagonist of g is gone in h
Left(g, h) ==
    IF g.poopingJJ # Null /\ h.poopingJJ = Null
    THEN [h EXCEPT !.log.left = g.poopingJJ.type]
    ELSE h

UpdatePooper(g) == IF g.poopingJJ # Null THEN Left(g, updatePoopingJJ(g)) ELSE g

\* carousels that are spawned without being recorded
SpawnCarouselsUnrecorded(g) ==
    IF ~g.hasSpawnedCarousel1 /\ g.distance > Px(750)
    THEN [spawnCarousel(g, 1) EXCEPT !.hasSpawnedCarousel1 = g.distance > Px(751)]
    ELSE IF ~g.hasSpawnedCarousel2 /\ g.distance > Px(1250)
         THEN [spawnCarousel(g, 2) EXCEPT !.hasSpawnedCarousel2 = g.distance > Px(1251)]
         ELSE g

SpawnCarousels(g) ==
    IF ~g.hasSpawnedCarousel1 /\ g.distance > Px(750)
    THEN [spawnCarousel(g, 1) EXCEPT !.hasSpawnedCarousel1 = TRUE]
    ELSE IF ~g.hasSpawnedCarousel2 /\ g.distance > Px(1250)
         THEN [spawnCarousel(g, 2) EXCEPT !.hasSpawnedCarousel2 = TRUE]
         ELSE g

\* A faulty variant: the win check after the rest of the tick.
CheckWinLast(g, t) ==
    IF WinReached(g) /\ Simulate(g, t).state # "EXPLODING"
    THEN [victory(g) EXCEPT !.log.ran = "victory"]
    ELSE Simulate(g, t)

\* the win check: victory() and return, or the rest of the tick
CheckWin(g, t) ==
    IF WinReached(g)
    THEN [victory(g) EXCEPT !.log.ran = "victory",
                            !.log.wouldCollide = (Simulate(g, t).state = "EXPLODING")]
    ELSE Simulate(g, t)

\* update() in state PLAYING, after the particle update
UpdatePlaying(g, t) ==
    CheckWin(SpawnCarousels(UpdatePooper(SpawnPooper(MoveCamera(Accelerate(Advance(g)))))), t)

\* a particle system that is updated in every other frame only
UpdateParticlesSlowly(g) ==
    [g EXCEPT !.frameCount = @ + 1,
              !.particles = IF g.frameCount % 2 = 0 THEN ParticlesUpdate(@) ELSE @]

UpdateParticles(g) == [g EXCEPT !.frameCount = @ + 1, !.particles = ParticlesUpdate(@)]

\* A faulty variant: the explosion ends without waiting for its particles.
UpdateExplodingOnce(g) ==
    [gameOver(g) EXCEPT !.log.ran = "exploding", !.log.exploding = @ + 1]

\* if (state === 'EXPLODING') { if (!hasParticles) gameOver(); return; }
UpdateExploding(g) ==
    [(IF ~(Len(g.particles) > 0) THEN gameOver(g) ELSE g)
        EXCEPT !.log.ran = "exploding", !.log.exploding = @ + 1]

AfterParticles(g, t) ==
    IF g.state = "EXPLODING" THEN UpdateExploding(g) ELSE UpdatePlaying(g, t)

\* update(deltaTime), run at time t
Update(g, t) == AfterParticles(UpdateParticles(g), t)

LoopRuns(g) == g.state = "PLAYING" \/ g.state = "EXPLODING"

\* gameLoop(timestamp): the frame callback
gameLoop(g, timestamp) ==
    IF ~LoopRuns(g) THEN g
    ELSE Update([g EXCEPT !.lastTime = timestamp], timestamp)

\* whether the callback registers the next one (requestAnimationFrame at its end)
Reschedules(g) == LoopRuns(g)

----------------------------------------------------------------------------
(* Session commands *)

NoKeys == [ArrowLeft |-> FALSE, ArrowRight |-> FALSE, KeyA |-> FALSE, KeyD |-> FALSE]

\* new Game(): the constructor and init()
NewGame ==
    [ state |-> "MENU",
      scrollSpeed |-> INITIAL_SCROLL_SPEED,
      scrollSpeedUlps |-> 0,
      distance |-> 0,
      lastHundredMeters |-> 0,
      frameCount |-> 0,
      lastTime |-> 0,
      cameraX |-> 0,
      pathCenter |-> GAME_WIDTH \div 2,
      pathTarget |-> Undefined,
      pathWidth |-> Px(450),
      targetPathWidth |-> Px(450),
      isSplitting |-> FALSE,
      startSeparating |-> FALSE,
      splitDistance |-> 0,
      maxSplitDistance |-> Px(250),
      splitTimer |-> 0,
      poopingJJ |-> Null,
      lastPoopJJSpawn |-> 0,
      hasSpawnedFirstPooper |-> FALSE,
      carouselActive |-> FALSE,
      carouselPhase |-> 0,
      hasSpawnedCarousel1 |-> FALSE,
      hasSpawnedCarousel2 |-> FALSE,
      player |-> createPlayer,
      obstacles |-> << >>,
      trails |-> << >>,
      particles |-> << >>,
      keys |-> NoKeys,
      audio |-> NewAudio,
      startScreenHidden |-> FALSE,
      gameOverScreenHidden |-> TRUE,
      victoryScreenHidden |-> TRUE,
      log |-> NoLog("new") ]

\* audio.start(), which may throw, and the lastTime assignment after it
StartAudio(g, t) ==
    IF AudioStartThrows(g.audio, audioAvailable)
    THEN [g EXCEPT !.audio = AudioInit(@, audioAvailable)]
    ELSE [g EXCEPT !.audio = AudioStart(@, audioAvailable), !.lastTime = t]

startGame(g, t) ==
    StartAudio([g EXCEPT !.startScreenHidden = TRUE, !.state = "PLAYING"], t)

\* what restart() assigns before audio.start()
ResetSession(g) ==
    [g EXCEPT
       !.gameOverScreenHidden = TRUE,
       !.victoryScreenHidden = TRUE,
       !.startScreenHidden = TRUE,
       !.obstacles = << >>,
       !.particles = << >>,
       !.trails = << >>,
       !.distance = 0,
       !.lastHundredMeters = 0,
       !.frameCount = 0,
       !.scrollSpeed = INITIAL_SCROLL_SPEED,
       !.scrollSpeedUlps = 0,
       !.log.crossings = 0,
       !.log.exploding = 0,
       !.pathCenter = GAME_WIDTH \div 2,
       !.pathWidth = Px(450),
       !.targetPathWidth = Px(450),
       !.splitDistance = 0,
       !.isSplitting = FALSE,
       !.startSeparating = FALSE,
       !.lastPoopJJSpawn = 0,
       !.hasSpawnedFirstPooper = FALSE,
       !.carouselActive = FALSE,
       !.carouselPhase = 0,
       !.hasSpawnedCarousel1 = FALSE,
       !.hasSpawnedCarousel2 = FALSE,
       !.poopingJJ = Null,
       !.player = createPlayer,
       !.state = "PLAYING"]

\* A faulty variant: a restart that forgets the obstacle registry.
restartKeepingObstacles(g, t) ==
    StartAudio([ResetSession(g) EXCEPT !.obstacles = g.obstacles], t)

restart(g, t) == StartAudio(ResetSession(g), t)

\* whether startGame()/restart() get to their requestAnimationFrame
RequestsFrame(g) == ~AudioStartThrows(g.audio, audioAvailable)

WithLog(g, op) ==
    [g EXCEPT !.log = [NoLog(op) EXCEPT !.from = g.state, !.held = g.log.held,
                                        !.crossings = g.log.crossings,
                                        !.exploding = g.log.exploding]]

----------------------------------------------------------------------------
(* Actions *)

Keys == {"ArrowLeft", "ArrowRight", "KeyA", "KeyD"}

Env == <<seed, schedule, audioAvailable, touches>>

\* click on #start-btn, which the start screen shows
StartClick ==
    /\ runQueue = 0
    /\ ~game.startScreenHidden
    /\ LET g0 == WithLog([game EXCEPT !.audio = AudioInit(@, audioAvailable)], "startGame")
       IN  /\ game' = startGame(g0, now)
           /\ pendingFrames' = IF RequestsFrame(g0) THEN pendingFrames + 1 ELSE pendingFrames
    /\ UNCHANGED <<now, runQueue, Env, restarts, replayFrames>>

\* click on #restart-btn or #restart-btn-win, which the game-over and victory screens show
RestartClick ==
    /\ runQueue = 0
    /\ ~game.gameOverScreenHidden \/ ~game.victoryScreenHidden
    /\ restarts < MaxRestarts
    /\ game' = [restart(WithLog(game, "restart"), now) EXCEPT
                    !.log.sinceStop = now - game.lastTime]
    /\ pendingFrames' = IF RequestsFrame(game) THEN pendingFrames + 1 ELSE pendingFrames
    /\ restarts' = restarts + 1
    /\ replayFrames' = 0
    /\ UNCHANGED <<now, runQueue, Env>>

\* a display refresh runs the registered frame callbacks one after the other;
\* this is one of them (the first one opens the refresh and advances the clock)
GameLoop ==
    /\ runQueue + pendingFrames > 0
    /\ LET starting == runQueue = 0
           t == IF starting THEN now + FrameMs ELSE now
           g0 == [WithLog(game, "gameLoop") EXCEPT
                     !.log.updates = (IF starting THEN 0 ELSE game.log.updates)
                                     + (IF LoopRuns(game) THEN 1 ELSE 0)]
       IN  /\ starting => (restarts = 0 \/ replayFrames < MaxReplayFrames)
           /\ starting => ~Overdue
           /\ game' = gameLoop(g0, t)
           /\ now' = t
           /\ runQueue' = (IF starting THEN pendingFrames ELSE runQueue) - 1
           /\ pendingFrames' = (IF starting THEN 0 ELSE pendingFrames)
                               + (IF Reschedules(game) THEN 1 ELSE 0)
           /\ replayFrames' = IF starting /\ restarts > 0 THEN replayFrames + 1
                              ELSE replayFrames
    /\ UNCHANGED <<Env, restarts>>

\* keydown of a steering key
KeyDown(k) ==
    /\ Allowed("down", k)
    /\ game' = [WithLog(game, "keydown") EXCEPT !.keys[k] = TRUE]
    /\ UNCHANGED <<now, pendingFrames, runQueue, Env, restarts, replayFrames>>

\* keyup of a steering key
KeyUp(k) ==
    /\ Allowed("up", k)
    /\ game' = [WithLog(game, "keyup") EXCEPT !.keys[k] = FALSE]
    /\ UNCHANGED <<now, pendingFrames, runQueue, Env, restarts, replayFrames>>

Zones == {"left", "right"}

\* updateSteering(touches): nothing unless PLAYING; else KeyA and KeyD are
\* set to whether a finger is in the left and in the right zone
updateSteering(g, fingers) ==
    IF g.state # "PLAYING" THEN g
    ELSE [g EXCEPT !.keys.KeyA = "left" \in fingers, !.keys.KeyD = "right" \in fingers]

\* touchstart on the screen area: handleTouch with the touches that are down
TouchStart(z) ==
    /\ Allowed("touch", z)
    /\ z \notin touches
    /\ touches' = touches \cup {z}
    /\ game' = updateSteering(WithLog(game, "touchstart"), touches \cup {z})
    /\ UNCHANGED <<now, pendingFrames, runQueue, seed, schedule, audioAvailable,
                   restarts, replayFrames>>

\* touchend: handleTouch with the touches that remain
TouchEnd(z) ==
    /\ Allowed("release", z)
    /\ z \in touches
    /\ touches' = touches \ {z}
    /\ game' = updateSteering(WithLog(game, "touchend"), touches \ {z})
    /\ UNCHANGED <<now, pendingFrames, runQueue, seed, schedule, audioAvailable,
                   restarts, replayFrames>>

Sounds == {"gagi", "spiegelei"}

\* loadExternalSounds(): a fetch and decode that init() started has succeeded
SoundLoaded(k) ==
    /\ Allowed("load", k)
    /\ game.audio.ctx
    /\ game' = IF k = "gagi"
               THEN [WithLog(game, "load") EXCEPT !.audio.gagiBuffer = TRUE]
               ELSE [WithLog(game, "load") EXCEPT !.audio.spiegeleiBuffer = TRUE]
    /\ UNCHANGED <<now, pendingFrames, runQueue, Env, restarts, replayFrames>>

\* keydown of Space, KeyW or ArrowUp
JumpKey ==
    /\ Allowed("jump", "Space")
    /\ game' = IF game.state = "PLAYING"
               THEN [WithLog(game, "jump") EXCEPT !.player = PlayerJump(@, now)]
               ELSE WithLog(game, "jump")
    /\ UNCHANGED <<now, pendingFrames, runQueue, Env, restarts, replayFrames>>

Init ==
    /\ game = NewGame
    /\ now = 0
    /\ pendingFrames = 0
    /\ runQueue = 0
    /\ seed \in 0..MaxSeed
    /\ schedule \in 1..Len(Schedules)
    /\ audioAvailable \in BOOLEAN
    /\ touches = {}
    /\ restarts = 0
    /\ replayFrames = 0

Next ==
    \/ StartClick
    \/ RestartClick
    \/ GameLoop
    \/ \E k \in Keys : KeyDown(k)
    \/ \E k \in Keys : KeyUp(k)
    \/ JumpKey
    \/ \E k \in Sounds : SoundLoaded(k)
    \/ \E z \in Zones : TouchStart(z)
    \/ \E z \in Zones : TouchEnd(z)

Spec == Init /\ [][Next]_vars

-----------------------------------------------------------------------------
(* The particle system on its own: one burst, whose decays are drawn from   *)
(* the ends and the middle of their range, then update() until it returns  *)
(* false.                                                                  *)

Draws == {0, 9, 10, 500, 999}

InitBurst ==
    /\ game = NewGame
    /\ now = 0
    /\ pendingFrames = 0
    /\ runQueue = 0
    /\ seed = 0
    /\ schedule = 1
    /\ audioAvailable = TRUE
    /\ touches = {}
    /\ restarts = 0
    /\ replayFrames = 0

\* spawnExplosion(x, y, color) on the empty system
SpawnBurst ==
    /\ game.log.op = "new"
    /\ \E a \in Draws, b \in Draws :
          game' = [WithLog(game, "spawnExplosion") EXCEPT
                     !.particles = @ \o Burst("#ff3d00",
                                              [ i \in 1..particleCount |->
                                                  IF i % 2 = 1 THEN a ELSE b ])]
    /\ UNCHANGED <<now, pendingFrames, runQueue, Env, restarts, replayFrames>>

\* one more update(), as long as the last one returned true
UpdateBurst ==
    /\ \/ game.log.op = "spawnExplosion"
       \/ game.log.op = "update" /\ game.log.returned
    /\ game' = [WithLog(game, "update") EXCEPT
                  !.particles = ParticlesUpdate(@),
                  !.log.particleUpdates = game.log.particleUpdates + 1,
                  !.log.returned = ParticlesRemain(ParticlesUpdate(game.particles))]
    /\ UNCHANGED <<now, pendingFrames, runQueue, Env, restarts, replayFrames>>

NextBurst == SpawnBurst \/ UpdateBurst

BurstSpec == InitBurst /\ [][NextBurst]_vars

----------------------------------------------------------------------------
(* Properties *)

\* the step just taken was a frame callback that ran update() past the win check
Played == game'.log.op = "gameLoop" /\ game'.log.ran = "playing"

StateChanges ==
    { <<"MENU", "PLAYING", "startGame">>,
      <<"PLAYING", "EXPLODING", "gameLoop">>,
      <<"EXPLODING", "GAMEOVER", "gameLoop">>,
      <<"PLAYING", "VICTORY", "gameLoop">>,
      <<"GAMEOVER", "PLAYING", "restart">>,
      <<"VICTORY", "PLAYING", "restart">> }

\* C1: the state changes only MENU to PLAYING by startGame, PLAYING to
\* EXPLODING, EXPLODING to GAMEOVER and PLAYING to VICTORY by a tick, and
\* GAMEOVER or VICTORY to PLAYING by restart.
C1_StateMachine ==
    [][ game'.state # game.state
        => <<game.state, game'.state, game'.log.op>> \in StateChanges ]_vars

\* a session that was won and then restarted
C1_Witness == game.log.op = "restart" /\ game.log.from = "VICTORY"

\* C2: a PLAYING tick in which the grounded player overlaps an obstacle that
\* is no carousel ends in EXPLODING with the player's opacity 0, and from
\* then on no step but a restart changes distance.
C2_FatalCollision ==
    [][ /\ (Played /\ ~game'.player.isJumping /\ game'.log.fatalOverlaps > 0)
            => (game'.state = "EXPLODING" /\ game'.player.opacity = 0)
        /\ (game.state \in {"EXPLODING", "GAMEOVER"} /\ game'.log.op # "restart")
            => game'.distance = game.distance ]_vars

\* a tick in which the grounded player ran into a rock, a tree, a barrier...
C2_Witness ==
    /\ game.log.ran = "playing"
    /\ game.log.groundedAtCollision
    /\ game.log.fatalOverlaps > 0

\* C3: a PLAYING tick that takes distance to WIN_DISTANCE or beyond ends in
\* VICTORY and evaluates no collision: nothing is dispatched, no particle is
\* spawned, the player is as it was, and the state is not EXPLODING.
C3_VictoryFirst ==
    [][ (game'.log.op = "gameLoop" /\ game.state = "PLAYING"
         /\ game'.distance >= WIN_DISTANCE)
        => /\ game'.state = "VICTORY"
           /\ game'.log.ran = "victory"
           /\ game'.log.dispatched = 0
           /\ game'.log.explosions = 0
           /\ game'.particles = game.particles
           /\ game'.player = game.player ]_vars

\* a victory tick whose skipped collision step would have exploded the player
C3_Witness ==
    /\ game.state = "VICTORY"
    /\ game.log.ran = "victory"
    /\ game.log.wouldCollide
    /\ ~game.player.isJumping

\* C4: restart() called in GAMEOVER leaves distance 0, no obstacle, no
\* antagonist, no particle, the state PLAYING and the player's opacity 1.
C4_RestartFromGameOver ==
    [][ (game.state = "GAMEOVER" /\ game'.log.op = "restart")
        => /\ game'.distance = 0
           /\ game'.obstacles = << >>
           /\ game'.poopingJJ = Null
           /\ game'.particles = << >>
           /\ game'.state = "PLAYING"
           /\ game'.player.opacity = 1 ]_vars

\* restart() has just run on a game that was over
C4_Witness == game.log.op = "restart" /\ game.log.from = "GAMEOVER"

\* the simulation fields of a game
SimFields(g) ==
    [ distance |-> g.distance,
      lastHundredMeters |-> g.lastHundredMeters,
      frameCount |-> g.frameCount,
      scrollSpeed |-> g.scrollSpeed,
      pathCenter |-> g.pathCenter,
      pathTarget |-> g.pathTarget,
      pathWidth |-> g.pathWidth,
      targetPathWidth |-> g.targetPathWidth,
      isSplitting |-> g.isSplitting,
      startSeparating |-> g.startSeparating,
      splitDistance |-> g.splitDistance,
      splitTimer |-> g.splitTimer,
      cameraX |-> g.cameraX,
      carouselActive |-> g.carouselActive,
      carouselPhase |-> g.carouselPhase,
      hasSpawnedCarousel1 |-> g.hasSpawnedCarousel1,
      hasSpawnedCarousel2 |-> g.hasSpawnedCarousel2,
      poopingJJ |-> g.poopingJJ,
      lastPoopJJSpawn |-> g.lastPoopJJSpawn,
      hasSpawnedFirstPooper |-> g.hasSpawnedFirstPooper,
      trails |-> g.trails,
      player |-> g.player ]

\* C5: after restart() every simulation field has the value it has in a
\* freshly constructed game that has just been started.
C5_RestartIsFresh ==
    game.log.op = "restart" => SimFields(game) = SimFields(startGame(NewGame, now))

\* C6: the state becomes GAMEOVER only from EXPLODING, in a tick whose
\* particle update leaves no particle, and a tick in EXPLODING whose particle
\* update leaves one stays in EXPLODING.
C6_GameOverAfterParticles ==
    [][ /\ (game'.state = "GAMEOVER" /\ game.state # "GAMEOVER")
            => /\ game.state = "EXPLODING"
               /\ game'.log.op = "gameLoop"
               /\ ParticlesUpdate(game.particles) = << >>
               /\ game'.particles = << >>
        /\ (game.state = "EXPLODING" /\ game'.log.op = "gameLoop"
            /\ ParticlesUpdate(game.particles) # << >>)
            => game'.state = "EXPLODING" ]_vars

\* the tick that ended an explosion
C6_Witness ==
    /\ game.state = "GAMEOVER"
    /\ game.log.op = "gameLoop"
    /\ game.log.ran = "exploding"
    /\ game.particles = << >>

\* C7: in a PLAYING tick nothing is dispatched while isJumping holds at the
\* collision step, every overlapping obstacle is dispatched when it does not,
\* and an airborne player lands in the first update whose elapsed time is
\* JUMP_DURATION or more, and not before.
C7_JumpImmunity ==
    [][ Played
        => /\ game'.log.groundedAtCollision = ~game'.player.isJumping
           /\ game'.player.isJumping
                => /\ game'.log.dispatched = 0
                   /\ game'.log.explosions = 0
                   /\ game'.log.carouselEffects = 0
                   /\ game'.state = "PLAYING"
           /\ ~game'.player.isJumping
                => /\ game'.log.dispatched = game'.log.overlaps
                   /\ game'.log.explosions = game'.log.fatalOverlaps
           /\ game.player.isJumping
                => (game'.player.isJumping
                      <=> now' - game.player.jumpStartTime < JUMP_DURATION)
           /\ ~game.player.isJumping => ~game'.player.isJumping ]_vars

\* a tick in which the airborne player passed over an obstacle
C7_Witness ==
    /\ game.log.ran = "playing"
    /\ game.player.isJumping
    /\ game.log.overlaps > 0
    /\ game.state = "PLAYING"

\* every carousel of g has applied its effect at most once, carries the
\* triggered flag exactly if it has, and once triggered its effect changes nothing
CarouselOnce(g) ==
    \A i \in 1..Len(g.obstacles) :
        g.obstacles[i].type = "carousel"
        => /\ g.obstacles[i].fired <= 1
           /\ g.obstacles[i].triggered <=> g.obstacles[i].fired = 1
           /\ g.obstacles[i].triggered => triggerCarouselEffect(g, i) = g

\* every carousel of g that overlaps the player is triggered
OverlappedTriggered(g) ==
    \A i \in 1..Len(g.obstacles) :
        (g.obstacles[i].type = "carousel" /\ checkCollision(g.player, g.obstacles[i]))
        => g.obstacles[i].triggered

\* C8: a carousel applies its effect exactly once: the first tick in which the
\* grounded player overlaps it sets its triggered flag, and a later
\* overlapping tick applies no effect and leaves carouselActive as it was.
C8_CarouselOnce ==
    [][ /\ CarouselOnce(game')
        /\ Played
            => /\ game'.log.carouselEffects
                    = (IF game'.player.isJumping THEN 0 ELSE game'.log.freshCarousels)
               /\ ~game'.player.isJumping => OverlappedTriggered(game')
               /\ game'.log.carouselEffects = 0
                    => game'.carouselActive = game.carouselActive ]_vars

\* a tick in which the grounded player still overlaps a carousel that has
\* already applied its effect
C8_Witness ==
    /\ game.log.ran = "playing"
    /\ game.log.groundedAtCollision
    /\ game.log.staleCarousels > 0
    /\ game.log.carouselEffects = 0

\* C9: at most one frame callback is registered at any time, and a display
\* refresh runs update() at most once.
C9_OneFrameLoop == pendingFrames + runQueue <= 1 /\ game.log.updates <= 1

\* C10: while the state is GAMEOVER or VICTORY no frame callback is registered.
C10_NoFrameAfterEnd ==
    game.state \in {"GAMEOVER", "VICTORY"} => pendingFrames + runQueue = 0

\* C11: a tick that advances the path moves pathCenter by at most
\* 0.5 + 0.1 * scrollSpeed and pathWidth by at most 0.5, and pathWidth is
\* within [300, GAME_WIDTH] in every state.
C11_NoTeleport ==
    /\ [](game.pathWidth >= Px(300) /\ game.pathWidth <= GAME_WIDTH)
    /\ [][Played =>
            /\ Abs(game'.pathCenter - game.pathCenter)
                    <= 5000 + MeterScale(game'.scrollSpeed)
            /\ Abs(game'.pathWidth - game.pathWidth) <= 5000]_vars

\* a tick of a fork that is widening the path
C11_Witness ==
    /\ game.log.ran = "playing"
    /\ game.isSplitting /\ game.targetPathWidth = Px(750)
    /\ game.pathWidth > Px(450) /\ game.pathWidth < Px(750)

\* C12: a fork starts only in a tick that begins with isSplitting false and
\* splitDistance 0, and after a tick that leaves isSplitting false the
\* splitDistance is 0 or smaller than before the tick.
C12_ForkPhases ==
    [][Played =>
        /\ (game'.isSplitting /\ ~game.isSplitting => game.splitDistance = 0)
        /\ (game'.isSplitting /\ game.splitDistance > 0 => game.isSplitting)
        /\ (~game'.isSplitting /\ game'.splitDistance > 0
                => game'.splitDistance < game.splitDistance)]_vars

\* a tick of the contraction phase
C12_Witness ==
    /\ game.log.ran = "playing"
    /\ ~game.isSplitting /\ game.splitDistance > 0
    /\ game.splitDistance < game.maxSplitDistance

\* C13: pathCenter stays within the playfield [0, GAME_WIDTH].
C13_CenterInPlayfield == game.pathCenter >= 0 /\ game.pathCenter <= GAME_WIDTH

\* the session in which no input is ever supplied
NoInput == schedule = 1 /\ restarts = 0

\* C14 (as stated): in a session without input the distance accrues until it
\* exceeds 250 m, so play ends only beyond 250 m; no antagonist exists
\* while distance is at most 250 m.
C14_NoInputPasses250 ==
    /\ (NoInput /\ game.state \in {"EXPLODING", "GAMEOVER"} => game.distance > Px(250))
    /\ (game.poopingJJ # Null => game.distance > Px(250))

\* C14 (amended): no antagonist exists while distance is at most 250 m, the
\* first antagonist of a session is the squat variant, and the session
\* without input ends below 250 m without any antagonist.
C14_FirstAntagonist ==
    /\ [](game.poopingJJ # Null => game.distance > Px(250))
    /\ [](NoInput => game.distance <= Px(250) /\ ~game.hasSpawnedFirstPooper)
    /\ [][game.poopingJJ = Null /\ game'.poopingJJ # Null /\ ~game.hasSpawnedFirstPooper
            => game'.poopingJJ.type = "squat" /\ game'.hasSpawnedFirstPooper]_vars

\* the tick that spawned the first antagonist
C14_Witness ==
    /\ game.log.ran = "playing"
    /\ game.poopingJJ # Null /\ game.poopingJJ.type = "squat"
    /\ game.lastPoopJJSpawn = game.distance /\ game.distance < Px(251)

\* C15: an antagonist is spawned only into the empty slot, and every spawn
\* after the first only when distance exceeds the distance recorded at the
\* previous spawn by more than 400 m; an antagonist in the slot is not replaced.
C15_OneAntagonist ==
    [][/\ (game.poopingJJ = Null /\ game'.poopingJJ # Null
              => /\ game'.lastPoopJJSpawn = game'.distance
                 /\ (game.hasSpawnedFirstPooper
                        => game'.distance - game.lastPoopJJSpawn > Px(400)))
       /\ (game.poopingJJ # Null /\ game'.poopingJJ # Null
              => /\ game'.lastPoopJJSpawn = game.lastPoopJJSpawn
                 /\ game'.poopingJJ.type = game.poopingJJ.type
                 /\ game'.poopingJJ.lifeTime >= game.poopingJJ.lifeTime)]_vars

\* the tick that spawned the second antagonist of a session
C15_Witness ==
    /\ game.log.ran = "playing"
    /\ game.poopingJJ # Null /\ game.poopingJJ.state = "entering"
    /\ game.lastPoopJJSpawn = game.distance /\ game.distance > Px(650)

\* C16: carouselActive becomes true only in a tick that applies the effect of
\* a phase-1 carousel and false only in a tick that applies the effect of a
\* phase-2 carousel or on restart; every tick that applies an effect leaves
\* it equal to "the phase is 1", so it tells the phase of the last carousel
\* triggered in the session.
C16_ReverseFlag ==
    [][/\ (game'.carouselActive /\ ~game.carouselActive
              => Played /\ game'.log.carouselEffects = 1 /\ game'.log.effectPhase = 1)
       /\ (~game'.carouselActive /\ game.carouselActive
              => \/ game'.log.op = "restart"
                 \/ Played /\ game'.log.carouselEffects = 1 /\ game'.log.effectPhase = 2)
       /\ (game'.log.carouselEffects > 0
              => game'.carouselActive = (game'.log.effectPhase = 1))
       /\ (game'.log.op = "restart" => ~game'.carouselActive)]_vars

\* the tick in which the second carousel ends the reversal begun by the first
C16_Witness ==
    /\ game.log.ran = "playing" /\ game.log.effectPhase = 2
    /\ ~game.carouselActive
    /\ game.log.dx = -PLAYER_SPEED /\ game.keys.KeyD /\ ~game.keys.KeyA

\* C17: a PLAYING tick that reaches the input step adds PLAYER_SPEED to the
\* player's x for the right intent alone and subtracts it for the left intent
\* alone, the other way round while carouselActive is true, and leaves x
\* unchanged for both or neither; no bound is applied to x.
C17_Steering ==
    [][Played =>
        LET left == game.keys.ArrowLeft \/ game.keys.KeyA
            right == game.keys.ArrowRight \/ game.keys.KeyD
            step == IF game.carouselActive THEN -PLAYER_SPEED ELSE PLAYER_SPEED
        IN  game'.player.x =
                IF right /\ ~left THEN game.player.x + step
                ELSE IF left /\ ~right THEN game.player.x - step
                ELSE game.player.x]_vars

\* a tick with the controls reversed, left of the playfield: the right
\* intent has moved the player further left
C17_Witness ==
    /\ game.log.ran = "playing" /\ game.carouselActive
    /\ game.log.effectPhase = 0
    /\ game.keys.KeyD /\ ~game.keys.KeyA /\ ~game.keys.ArrowLeft
    /\ game.log.dx = -PLAYER_SPEED /\ game.player.x < -Px(1000)

Hundreds(g) == g.distance \div Px(100)

\* a frame callback that found the state PLAYING
TickOfPlay == game'.log.op = "gameLoop" /\ game'.log.from = "PLAYING"

\* C18 (as stated): in every tick of play in which floor(distance / 100)
\* increases exactly one jj-barrier and no wall tree or internal obstacle is
\* spawned, and after the tick lastHundredMeters is floor(distance / 100).
C18_EveryMilestone ==
    [][TickOfPlay =>
        /\ (Hundreds(game') > Hundreds(game)
              => /\ game'.log.barriers = 1
                 /\ game'.log.trees = 0 /\ game'.log.internals = 0)
        /\ game'.lastHundredMeters = Hundreds(game')]_vars

\* C18 (amended): the same for every tick that runs the spawn step, which
\* serves no milestone twice; the tick that reaches WIN_DISTANCE runs no spawn
\* step, spawns no barrier and leaves lastHundredMeters behind.
C18_MilestoneBarrier ==
    [][/\ (Played =>
              /\ (Hundreds(game') > Hundreds(game)
                    => /\ game'.log.barriers = 1
                       /\ game'.log.trees = 0 /\ game'.log.internals = 0)
              /\ (Hundreds(game') = Hundreds(game) => game'.log.barriers = 0)
              /\ game'.lastHundredMeters = Hundreds(game'))
       /\ (TickOfPlay /\ game'.log.ran = "victory"
              => /\ game'.log.barriers = 0
                 /\ game'.lastHundredMeters = game.lastHundredMeters
                 /\ Hundreds(game') * Px(100) >= WIN_DISTANCE)]_vars

\* a milestone tick
C18_Witness ==
    /\ game.log.ran = "playing" /\ game.log.barriers = 1
    /\ game.log.trees = 0 /\ game.log.internals = 0
    /\ game.lastHundredMeters = 19 /\ Hundreds(game) = 19

\* C19: one death is one explosion: a tick dispatches at most one fatal
\* collision, and the explosion holds the 120 particles of its two bursts.
C19_OneExplosion ==
    /\ game.log.explosions <= 1
    /\ (game.log.explosions > 0 => Len(game.particles) = 120)

\* place and type of every obstacle of a list after a scroll by s
Placed(obstacles, s) ==
    [ i \in 1..Len(obstacles) |->
        <<obstacles[i].x, obstacles[i].y - s, obstacles[i].type>> ]

\* of these, the ones that the scroll leaves at or below y = -100
StayOnWorld(obstacles, s) ==
    SelectSeq(Placed(obstacles, s), LAMBDA o : o[2] >= -Px(100))

\* C20: a tick that runs the obstacle loop keeps, in order and scrolled by
\* scrollSpeed, every obstacle whose y after the scroll is at least -100,
\* whether the player overlaps it or not, adds only what the tick spawned,
\* and ends with every obstacle at y >= -100.
C20_RemovalAboveWorld ==
    [][Played =>
        /\ \A i \in 1..Len(game'.obstacles) : game'.obstacles[i].y >= -Px(100)
        /\ Len(game'.obstacles) >= Len(StayOnWorld(game.obstacles, game'.scrollSpeed))
        /\ Len(game'.obstacles) <= Len(StayOnWorld(game.obstacles, game'.scrollSpeed))
              + game'.log.barriers + game'.log.trees + game'.log.internals
              + game'.log.poops + game'.log.carousels
        /\ SubSeq(Placed(game'.obstacles, 0), 1,
                   Len(StayOnWorld(game.obstacles, game'.scrollSpeed)))
              = StayOnWorld(game.obstacles, game'.scrollSpeed)]_vars

\* a tick that removed an obstacle while the player was overlapping another
C20_Witness ==
    /\ game.log.ran = "playing"
    /\ game.log.removed > 0 /\ game.log.overlaps > 0
    /\ game.state = "PLAYING"

\* C21: after a burst every update() returns true exactly when a particle is
\* left, leaves no particle with life <= 0, and the 150th update at the
\* latest returns false, with the collection empty.
C21_BurstEnds ==
    game.log.op = "update" =>
        /\ game.log.returned = (Len(game.particles) > 0)
        /\ \A i \in 1..Len(game.particles) : game.particles[i].life > 0
        /\ game.log.particleUpdates <= 150
        /\ (game.log.particleUpdates = 150 => ~game.log.returned)
        /\ (~game.log.returned => game.particles = << >>)

\* the slowest burst: the 150th update is the first to return false
C21_Witness ==
    /\ game.log.op = "update" /\ ~game.log.returned
    /\ game.log.particleUpdates = 150 /\ game.particles = << >>

\* the game with both sounds loaded
Hear(g) == [g EXCEPT !.audio.gagiBuffer = TRUE, !.audio.spiegeleiBuffer = TRUE]

\* the game without what only the sounds tell apart
Silent(g) ==
    [g EXCEPT !.audio.gagiBuffer = FALSE, !.audio.spiegeleiBuffer = FALSE,
              !.log.gagi = 0, !.log.spiegelei = 0]

\* C22: a tick of play plays no cue whose buffer is missing, and apart from
\* the cues it leaves the game exactly as the same tick does with both
\* buffers loaded.
C22_MissingSound ==
    [][TickOfPlay =>
        /\ (~game.audio.gagiBuffer => game'.log.gagi = 0)
        /\ (~game.audio.spiegeleiBuffer => game'.log.spiegelei = 0)
        /\ Silent(game')
              = Silent(gameLoop(Hear([WithLog(game, "gameLoop") EXCEPT
                                        !.log.updates = game'.log.updates]), now'))]_vars

\* the first carousel is triggered without its sound, after an antagonist
\* was spawned with its sound
C22_Witness ==
    /\ game.log.ran = "playing" /\ game.log.effectPhase = 1
    /\ game.audio.isPlaying /\ ~game.audio.spiegeleiBuffer /\ game.audio.gagiBuffer
    /\ game.log.spiegelei = 0 /\ game.carouselActive

\* C23: startGame and restart complete whether or not the audio context
\* exists, so the state is never PLAYING without a frame callback registered.
C23_PlayingHasFrame == game.state = "PLAYING" => pendingFrames + runQueue > 0

\* C24: the fork distance stays within 0 and maxSplitDistance.
C24_SplitDistanceInRange ==
    game.splitDistance >= 0 /\ game.splitDistance <= game.maxSplitDistance

\* C25: a fork is held at its maximum for at least one tick before
\* isSplitting is cleared: the tick that clears it follows a tick that left
\* the fork at its maximum without growing it.
C25_ForkHeld ==
    [][Played /\ game.isSplitting /\ ~game'.isSplitting => game'.log.held > 0]_vars

\* the path between two forks
ForkDone ==
    /\ ~game.isSplitting /\ ~game.startSeparating
    /\ game.splitDistance = 0 /\ game.targetPathWidth = Px(450)

\* C26: every PLAYING tick of a fork advances it, so that a bounded number
\* of ticks completes it: while widening, pathWidth grows by 0.5 toward 750
\* and startSeparating is set exactly when it has reached 700; while
\* separating, splitDistance grows by 1.5 up to its maximum; at the maximum
\* the fork is cleared or splitTimer counts on toward 400; the contraction
\* shrinks splitDistance and ends in the path between forks (isSplitting and
\* startSeparating false, splitDistance 0, targetPathWidth 450).
\* splitDistance grows only with pathWidth >= 700.
C26_ForkCompletes ==
    [][Played =>
        /\ (game.isSplitting /\ ~game.startSeparating
              => /\ game'.isSplitting /\ game'.targetPathWidth = Px(750)
                 /\ game'.pathWidth = game.pathWidth + 5000
                 /\ game'.startSeparating = (game'.pathWidth >= Px(700)))
        /\ (game.isSplitting /\ game.startSeparating
                /\ game.splitDistance < game.maxSplitDistance
              => /\ game'.isSplitting /\ game'.startSeparating
                 /\ game'.splitDistance = game.splitDistance + 15000)
        /\ (game.isSplitting /\ game.splitDistance >= game.maxSplitDistance
              => \/ ~game'.isSplitting /\ ~game'.startSeparating
                 \/ game'.splitTimer = game.splitTimer + 1 /\ game'.splitTimer <= 400)
        /\ (~game'.isSplitting /\ game.splitDistance > 0
              => /\ game'.splitDistance < game.splitDistance
                 /\ ~game'.startSeparating
                 /\ (game'.splitDistance = 0 => ForkDone'))
        /\ (game'.splitDistance > game.splitDistance
              => game'.startSeparating /\ game'.pathWidth >= Px(700))]_vars

\* the tick that ends the contraction of a fork, in play
C26_Witness ==
    /\ game.log.ran = "playing" /\ game.state = "PLAYING"
    /\ ForkDone /\ game.pathWidth = Px(750)

\* C27: pathWidth + splitDistance never exceeds GAME_WIDTH.
C27_ForkFitsPlayfield == game.pathWidth + game.splitDistance <= GAME_WIDTH

\* the widest fork: full width, full separation
C27_Witness ==
    /\ game.log.ran = "playing"
    /\ game.pathWidth = Px(750) /\ game.splitDistance >= game.maxSplitDistance

\* the width of one lane, as spawnWallTrees computes it
LaneWidth(g) ==
    IF g.isSplitting \/ g.splitDistance > 0 THEN g.pathWidth \div 2 ELSE g.pathWidth

\* the outer edges of the lanes and the inner edges of the two branches
LeftEdge(g) == g.pathCenter - g.splitDistance \div 2 - LaneWidth(g) \div 2

RightEdge(g) == g.pathCenter + g.splitDistance \div 2 + LaneWidth(g) \div 2

MidLeft(g) == g.pathCenter - g.splitDistance \div 2 + LaneWidth(g) \div 2

MidRight(g) == g.pathCenter + g.splitDistance \div 2 - LaneWidth(g) \div 2

\* C28: a fully opened fork (splitDistance at its maximum) is wide enough for
\* the third tree: its inner lane edges are separated, midRight > midLeft.
C28_OpenForkWideEnough ==
    game.splitDistance >= game.maxSplitDistance => MidRight(game) > MidLeft(game)

\* the obstacle pushed k places before the end of the list
FromEnd(g, k) == g.obstacles[Len(g.obstacles) - k]

\* C29: a tick spawns wall trees exactly when it serves no milestone,
\* frameCount is divisible by 10 and distance is not within 700 < distance <
\* 1300; it then spawns a tree within 10 of 20 beyond the left outer lane
\* edge and one within 10 of 20 beyond the right outer lane edge.
C29_WallTrees ==
    [][Played =>
        /\ (game'.log.trees > 0) =
              (/\ game'.log.barriers = 0
               /\ game'.frameCount % 10 = 0
               /\ ~(game'.distance > Px(700) /\ game'.distance < Px(1300)))
        /\ (game'.log.trees > 0 =>
              /\ game'.log.trees = 2
              /\ FromEnd(game', game'.log.internals + 1).type = "tree"
              /\ Abs(FromEnd(game', game'.log.internals + 1).x
                        - (LeftEdge(game') - Px(20))) <= Px(10)
              /\ FromEnd(game', game'.log.internals).type = "tree"
              /\ Abs(FromEnd(game', game'.log.internals).x
                        - (RightEdge(game') + Px(20))) <= Px(10))]_vars

\* a wall-spawn tick of a fork that is separating
C29_Witness ==
    /\ game.log.ran = "playing" /\ game.log.trees = 2
    /\ game.isSplitting /\ game.splitDistance > Px(80)

\* the cadence of the internal obstacles
Cadence(g) == IF g.distance > Px(1000) THEN 30 ELSE IF g.distance > Px(500) THEN 45 ELSE 60

\* C30: a tick spawns one internal obstacle exactly when it serves no
\* milestone and frameCount is divisible by the cadence (60 up to 500 m, 45 up
\* to 1000 m, 30 beyond), and none otherwise; it is a rock, a flag or a
\* ditch, a rock up to 400 m and a ditch only beyond 800 m.
C30_InternalObstacles ==
    [][Played =>
        /\ game'.log.internals =
              (IF game'.log.barriers = 0 /\ game'.frameCount % Cadence(game') = 0
               THEN 1 ELSE 0)
        /\ (game'.log.internals = 1 =>
              /\ FromEnd(game', 0).type \in {"rock", "flag", "ditch"}
              /\ (game'.distance <= Px(400) => FromEnd(game', 0).type = "rock")
              /\ (FromEnd(game', 0).type = "ditch" => game'.distance > Px(800)))]_vars

\* a tick that spawned a ditch
C30_Witness ==
    /\ game.log.ran = "playing" /\ game.log.internals = 1
    /\ Len(game.obstacles) > 0 /\ FromEnd(game, 0).type = "ditch"

C32_AntagonistLifecycle ==
    /\ [](game.poopingJJ # Null =>
            /\ (game.poopingJJ.type = "sled" =>
                  /\ game.poopingJJ.state \in {"entering", "skiing"}
                  /\ (game.poopingJJ.state = "entering") = (game.poopingJJ.y < Px(200))
                  /\ game.poopingJJ.lifeTime <= 643
                  /\ game.poopingJJ.y <= GAME_HEIGHT + Px(100))
            /\ (game.poopingJJ.type = "squat" =>
                  /\ game.poopingJJ.state = "crawling"
                  /\ game.poopingJJ.ropeElement
                  /\ game.poopingJJ.y >= -Px(150)))
    /\ [](game.scrollSpeed >= INITIAL_SCROLL_SPEED)
    /\ [][/\ (game.poopingJJ = Null /\ game'.poopingJJ # Null =>
                /\ TickOfPlay
                /\ (game'.poopingJJ.type = "sled" =>
                      game'.poopingJJ.state = "entering" /\ game'.poopingJJ.y = -Px(96))
                /\ (game'.poopingJJ.type = "squat" =>
                      game'.poopingJJ.y = GAME_HEIGHT + Px(100)))
           /\ (TickOfPlay /\ game.poopingJJ # Null /\ game.poopingJJ.type = "sled" =>
                IF /\ game.poopingJJ.state = "skiing"
                   /\ game.poopingJJ.lifeTime + 1 > 600
                   /\ game.poopingJJ.y + 5000 + Px(5) > GAME_HEIGHT + Px(100)
                THEN game'.poopingJJ = Null /\ game'.log.left = "sled"
                ELSE /\ game'.poopingJJ # Null /\ game'.log.left = "none"
                     /\ game'.poopingJJ.type = "sled"
                     /\ (game.poopingJJ.state = "entering" =>
                           game'.poopingJJ.y = game.poopingJJ.y + Px(4))
                     /\ (game.poopingJJ.state = "skiing" =>
                           /\ game'.poopingJJ.state = "skiing"
                           /\ game'.poopingJJ.lifeTime = game.poopingJJ.lifeTime + 1
                           /\ game'.poopingJJ.y = game.poopingJJ.y + 5000
                                 + (IF game'.poopingJJ.lifeTime > 600 THEN Px(5) ELSE 0)))
           /\ (TickOfPlay /\ game.poopingJJ # Null /\ game.poopingJJ.type = "squat" =>
                IF game.poopingJJ.y - game'.scrollSpeed < -Px(150)
                THEN game'.poopingJJ = Null /\ game'.log.left = "squat"
                ELSE /\ game'.poopingJJ # Null /\ game'.log.left = "none"
                     /\ game'.poopingJJ.type = "squat"
                     /\ game'.poopingJJ.y = game.poopingJJ.y - game'.scrollSpeed)
           /\ (game.poopingJJ # Null /\ game'.poopingJJ = Null =>
                TickOfPlay \/ game'.log.op = "restart")]_vars

\* the tick that removed a sled below the screen
C32_Witness == game.log.ran = "playing" /\ game.log.left = "sled"

\* C34: a jump key pressed while the state is PLAYING and the player is on
\* the ground sets isJumping and records the time; pressed in the air or in
\* any other state it leaves the player as it is.  Nothing else starts a
\* jump or moves its start, and the first player update at which
\* JUMP_DURATION or more has elapsed since the start, and none before it,
\* clears isJumping and sets scale to baseScale.
C34_Jump ==
    [][/\ (game'.log.op = "jump" =>
              game'.player =
                 (IF game.state = "PLAYING" /\ ~game.player.isJumping
                  THEN [game.player EXCEPT !.isJumping = TRUE, !.jumpStartTime = now]
                  ELSE game.player))
       /\ (game'.player.isJumping /\ ~game.player.isJumping => game'.log.op = "jump")
       /\ (game'.player.isJumping /\ game.player.isJumping
              => game'.player.jumpStartTime = game.player.jumpStartTime)
       /\ (game.player.isJumping /\ ~game'.player.isJumping
              => Played \/ game'.log.op = "restart")
       /\ (Played /\ game.player.isJumping =>
              IF now' - game.player.jumpStartTime >= JUMP_DURATION
              THEN ~game'.player.isJumping /\ game'.player.scale = baseScale
              ELSE game'.player.isJumping /\ game'.player.scale > baseScale)]_vars

\* a jump key pressed in the air, a frame or more after the jump began
C34_Witness ==
    /\ game.log.op = "jump" /\ game.state = "PLAYING"
    /\ game.player.isJumping /\ game.player.jumpStartTime < now

\* state, timer and place of the barriers of a list that a scroll by s
\* leaves on the world
Barriers(obstacles, s) ==
    SelectSeq([ i \in 1..Len(obstacles) |->
                  [ type |-> obstacles[i].type, state |-> obstacles[i].barrierState,
                    timer |-> obstacles[i].animTimer, y |-> obstacles[i].y - s ] ],
              LAMBDA b : b.type = "jj-barrier" /\ b.y >= -Px(100))

\* the barriers that the scroll takes above the world
BarriersLeaving(obstacles, s) ==
    SelectSeq([ i \in 1..Len(obstacles) |->
                  [ type |-> obstacles[i].type, state |-> obstacles[i].barrierState,
                    y |-> obstacles[i].y - s ] ],
              LAMBDA b : b.type = "jj-barrier" /\ b.y < -Px(100))

\* one animation step of a barrier, as the claim tells it
BarrierStep(b) ==
    CASE b.state = "wait" ->
            IF b.y < GAME_HEIGHT - Px(100) THEN [b EXCEPT !.state = "jump", !.timer = 0] ELSE b
      [] b.state = "jump" ->
            IF b.timer < 40 THEN [b EXCEPT !.timer = @ + 1]
            ELSE [b EXCEPT !.state = "crack", !.timer = 0]
      [] b.state = "crack" ->
            IF b.timer < 10 THEN [b EXCEPT !.timer = @ + 1]
            ELSE [b EXCEPT !.state = "done", !.timer = 11]
      [] OTHER -> b

\* C35: a tick that runs the obstacle loop takes every barrier that stays on
\* the world one animation step on, in the order wait, jump, crack, done: it
\* leaves wait in the first step that finds y < GAME_HEIGHT - 100, jump after
\* 40 steps and crack after 10, and never goes back; a barrier that the tick
\* removes for y < -100 is done.  In every state a waiting barrier is at
\* y >= GAME_HEIGHT - 100 and a barrier above y = 100 is done.
C35_BarrierAnimation ==
    /\ [](\A i \in 1..Len(game.obstacles) :
            game.obstacles[i].type = "jj-barrier" =>
              /\ game.obstacles[i].barrierState \in {"wait", "jump", "crack", "done"}
              /\ (game.obstacles[i].barrierState = "wait")
                    = (game.obstacles[i].y >= GAME_HEIGHT - Px(100))
              /\ (game.obstacles[i].y < Px(100) => game.obstacles[i].barrierState = "done"))
    /\ [][Played =>
            /\ SubSeq(Barriers(game'.obstacles, 0), 1,
                        Len(Barriers(game.obstacles, game'.scrollSpeed)))
                  = [ i \in 1..Len(Barriers(game.obstacles, game'.scrollSpeed)) |->
                        BarrierStep(Barriers(game.obstacles, game'.scrollSpeed)[i]) ]
            /\ Len(Barriers(game'.obstacles, 0))
                  = Len(Barriers(game.obstacles, game'.scrollSpeed)) + game'.log.barriers
            /\ \A i \in 1..Len(BarriersLeaving(game.obstacles, game'.scrollSpeed)) :
                  BarriersLeaving(game.obstacles, game'.scrollSpeed)[i].state = "done"]_vars

\* a barrier that is done, in its last tick on the world
C35_Witness ==
    /\ game.log.ran = "playing" /\ game.state = "PLAYING"
    /\ \E i \in 1..Len(game.obstacles) :
          /\ game.obstacles[i].type = "jj-barrier"
          /\ game.obstacles[i].barrierState = "done"
          /\ game.obstacles[i].y - game.scrollSpeed < -Px(100)

\* C36: the sub-steps of a tick of play run in the order player, path,
\* obstacle spawning and updating, collisions, special sequences, camera,
\* particles, terminal transition.  Told by what each step reads: the camera
\* eases toward the place the player has after its move; a carousel is
\* spawned at the centre the path has after its update; the particles of an
\* explosion have decayed once when the tick ends; and a tick that ends in
\* VICTORY has run the steps before the transition.
C36_TickOrder ==
    [][TickOfPlay =>
        /\ game'.cameraX
              = game.cameraX + Tenth((game'.player.x - GAME_WIDTH \div 2) - game.cameraX)
        /\ (game'.log.carousels = 1 =>
              FromEnd(game', game'.log.barriers + game'.log.trees
                                + game'.log.internals).x = game'.pathCenter)
        /\ (game'.log.explosions > 0 =>
              \A i \in 1..Len(game'.particles) : game'.particles[i].life < 15000)
        /\ (game'.state = "VICTORY" => game'.log.ran = "playing")]_vars

\* the samples of a trail after a tick at speed s: each one step older and
\* higher, without those older than 200 or above y = -100
Decayed(trails, s) ==
    SelectSeq([ i \in 1..Len(trails) |->
                  [ x |-> trails[i].x, y |-> trails[i].y - s, age |-> trails[i].age + 1 ] ],
              LAMBDA t : t.age <= 200 /\ t.y >= -Px(100))

\* the trail a tick leaves: the decayed samples and, for a player on the
\* ground, one new sample under the player
TrailAfter(g, h) ==
    Decayed(g.trails, h.scrollSpeed)
      \o (IF h.player.isJumping THEN << >>
          ELSE << [ x |-> h.player.x, y |-> h.player.y + Px(15) - h.scrollSpeed, age |-> 1 ] >>)

\* the trail is a bounded decaying buffer, empty after restart, and only a
\* tick of play or restart changes it
TrailBounded ==
    /\ [](/\ Len(game.trails) <= 200
           /\ \A i \in 1..Len(game.trails) :
                 /\ game.trails[i].age >= 1 /\ game.trails[i].age <= 200
                 /\ game.trails[i].y >= -Px(100)
           /\ (game.log.op = "restart" => game.trails = << >>))
    /\ [][game'.trails # game.trails => TickOfPlay \/ game'.log.op = "restart"]_vars

\* C37 (as stated): every tick of play appends exactly one sample when the
\* player is on the ground and none when it is in the air, and drops every
\* sample whose age exceeds 200 or whose y is below -100; the trail never
\* holds more than 200 samples and is empty after restart.
C37_TrailEveryTick ==
    /\ TrailBounded
    /\ [][TickOfPlay => game'.trails = TrailAfter(game, game')]_vars

\* C37 (amended): the same for every tick that runs past the win check; the
\* tick that reaches WIN_DISTANCE leaves the trail as it is.
C37_Trail ==
    /\ TrailBounded
    /\ [][/\ (Played => game'.trails = TrailAfter(game, game'))
           /\ (TickOfPlay /\ game'.log.ran = "victory" => game'.trails = game.trails)]_vars

\* a tick in the air: the trail has decayed and has no new sample
C37_Witness ==
    /\ game.log.ran = "playing" /\ game.player.isJumping
    /\ Len(game.trails) > 0 /\ game.trails[Len(game.trails)].age > 1

\* C38: every particle starts with life 1.5 and loses 0.01 or more in each
\* tick, so after k ticks in EXPLODING no particle has more than 1.5 - k * 0.01
\* left; the tick whose particle update leaves none ends in GAMEOVER, which
\* is the 150th at the latest: the state is never EXPLODING after more than
\* 150 ticks of it.
C38_ExplosionEnds ==
    /\ [](game.log.exploding <= 150)
    /\ [](\A i \in 1..Len(game.particles) :
            /\ game.particles[i].decay >= 100
            /\ game.particles[i].life > 0
            /\ game.particles[i].life <= 15000 - 100 * game.log.exploding)
    /\ [](game.state = "EXPLODING" => Len(game.particles) > 0)
    /\ [][(game'.log.op = "gameLoop" /\ game.state = "EXPLODING") =>
            /\ game'.log.exploding = game.log.exploding + 1
            /\ game'.state = (IF ParticlesUpdate(game.particles) = << >>
                              THEN "GAMEOVER" ELSE "EXPLODING")]_vars

\* the tick that ended an explosion of more than 140 ticks
C38_Witness ==
    /\ game.state = "GAMEOVER" /\ game.log.op = "gameLoop"
    /\ game.log.exploding > 140 /\ game.particles = << >>

\* a session steered by touch alone
TouchOnly == \A w \in Schedules[schedule] : w.ev \in {"touch", "release"}

\* C39: when every finger has left the screen no steering flag that a touch
\* has set stays set, in whatever state the last finger was lifted: a session
\* steered by touch alone has no movement intent while nothing is touched,
\* also after a restart, and its player does not move then.
C39_TouchReleased ==
    /\ [](TouchOnly /\ touches = {} => game.keys = NoKeys)
    /\ [][TouchOnly /\ touches = {} /\ Played => game'.player.x = game.player.x]_vars

\* C40: at most one chain of background notes is live at any time, and a
\* start() that follows a stop() by less than 500 ms (a restart from the
\* victory or game-over screen) does not leave two: no more than one
\* timeout of playNote is ever set, also by such a restart.
C40_OneChain ==
    /\ [](game.audio.bgmTimers <= 1)
    /\ [][(/\ game'.log.op = "restart"
           /\ ~game.audio.isPlaying /\ game'.audio.isPlaying
           /\ game'.log.sinceStop < 500) => game'.audio.bgmTimers <= 1]_vars

\* a restart from the victory screen, in the refresh of the winning tick,
\* has started the audio again
C40_Witness ==
    /\ game.log.op = "restart" /\ game.log.from = "VICTORY"
    /\ game.audio.ctx /\ game.audio.isPlaying /\ game.audio.skiNode
    /\ game.log.sinceStop < 500
    /\ game.audio.bgmTimers <= 1

\* the ceiling of the current mode
Ceiling(g) == IF g.carouselActive THEN Px(4) ELSE MAX_SPEED

\* C33: a PLAYING tick raises scrollSpeed by 0.001 when it is below the
\* ceiling of the mode (8, or 4 while carouselActive), lowers it by 0.05 when
\* above and leaves it when equal; while the mode is unchanged the speed
\* goes across the ceiling at most once, and once equal to it stays equal.
C33_NoOscillation ==
    /\ [](game.log.crossings <= 1)
    /\ [][TickOfPlay =>
            /\ game'.scrollSpeed =
                  (IF SpeedBelow(game, Ceiling(game)) THEN game.scrollSpeed + 10
                   ELSE IF SpeedAbove(game, Ceiling(game)) THEN game.scrollSpeed - 500
                   ELSE game.scrollSpeed)
            /\ (~SpeedBelow(game, Ceiling(game)) /\ ~SpeedAbove(game, Ceiling(game))
                    /\ game'.carouselActive = game.carouselActive
                  => ~SpeedBelow(game', Ceiling(game)) /\ ~SpeedAbove(game', Ceiling(game)))]_vars
====
